---- MODULE Spec2Model ----
(***************************************************************************)
(* A model of the text editing engine of CppLuaEditor (TextEditor in        *)
(* example_plugin/Plugin.cpp): the line buffer, the coordinate arithmetic,  *)
(* the cursor/selection state, the edit operations and the undo history.    *)
(*                                                                          *)
(* Characters are byte values (0..255).  A line is a sequence of bytes, the *)
(* document a non-empty sequence of lines.  Source indices are 0-based; the *)
(* TLA+ sequences are 1-based, so line l of the source is mLines[l + 1].    *)
(*                                                                          *)
(* The operations are written as functions from an editor value (a record   *)
(* holding every field of the TextEditor object that the modelled code      *)
(* reads or writes) to the editor value after the call.  An access outside  *)
(* the line vector sets the field "fault" and the call stops there: the     *)
(* program has left defined behaviour.  A read one element past the end of  *)
(* a line sets "strayRead": the call goes on, and the step may also halt.   *)
(* A failed assert sets "assertFailed"; the call goes on as it does in a    *)
(* build without assertions.                                                *)
(***************************************************************************)
EXTENDS Integers, Sequences, FiniteSets, TLC

\* ------------------------------------------------------------------ bounds

\* Most lines a document may grow to.
MaxLines == 3
\* Most bytes a single line may grow to.
MaxLineLen == 6
\* Most records the undo history may hold.
MaxUndo == 3
\* Most operations in one run of the editor.
MaxSteps == 3

\* --------------------------------------------------------------- characters

TabChar == 9
NewLine == 10
CarriageReturn == 13
SpaceChar == 32
SlashChar == 47
StarChar == 42
DashChar == 45

\* The empty/sentinel dirty interval ColorizeInternal leaves behind.
ColorRangeSentinel == 10000

Min2(a, b) == IF a < b THEN a ELSE b
Max2(a, b) == IF a > b THEN a ELSE b

\* isspace() in the "C" locale: space, \t, \n, \v, \f, \r.
IsSpace(c) == c = SpaceChar \/ (c >= TabChar /\ c <= CarriageReturn)

\* isblank() of an ASCII byte: space or tab.
IsBlank(c) == c = SpaceChar \/ c = TabChar

IsUTFSequence(c) == (c \div 64) = 2

\* A UTF8CharLength that takes 11111110 for the lead byte of six.
UTF8CharLengthOfFE(c) ==
    IF c = 254 THEN 6
    ELSE IF (c \div 4) = 62 THEN 5
    ELSE IF (c \div 8) = 30 THEN 4
    ELSE IF (c \div 16) = 14 THEN 3
    ELSE IF (c \div 32) = 6 THEN 2
    ELSE 1

UTF8CharLength(c) ==
    IF (c \div 2) = 126 THEN 6
    ELSE IF (c \div 4) = 62 THEN 5
    ELSE IF (c \div 8) = 30 THEN 4
    ELSE IF (c \div 16) = 14 THEN 3
    ELSE IF (c \div 32) = 6 THEN 2
    ELSE 1

\* -------------------------------------------------------------- coordinates

Coordinates(l, c) == [mLine |-> l, mColumn |-> c]

CoordLess(a, b) ==
    IF a.mLine # b.mLine THEN a.mLine < b.mLine ELSE a.mColumn < b.mColumn

CoordLessEq(a, b) ==
    IF a.mLine # b.mLine THEN a.mLine < b.mLine ELSE a.mColumn <= b.mColumn

CoordMin(a, b) == IF CoordLess(b, a) THEN b ELSE a

\* The comparison "aLine >= mLines.size()" is made in size_t: a negative int
\* converts to a huge unsigned value and compares greater.
LineOutOfRange(lines, l) == l < 0 \/ l >= Len(lines)

\* Line l (0-based) of the buffer.
LineAt(lines, l) == lines[l + 1]

\* A tab that moves the column on by ts without rounding it to a tab stop.
NextColumnWithoutRounding(ts, col, c) ==
    IF c = TabChar THEN col + ts ELSE col + 1

\* The column reached after the byte c when the column before it is col.
NextColumn(ts, col, c) ==
    IF c = TabChar THEN (col \div ts) * ts + ts ELSE col + 1

RECURSIVE CharIndexWalk(_, _, _, _, _)
CharIndexWalk(line, ts, col, i, c) ==
    IF i < Len(line) /\ c < col
    THEN CharIndexWalk(line, ts, col, i + UTF8CharLength(line[i + 1]),
                       NextColumn(ts, c, line[i + 1]))
    ELSE i

GetCharacterIndex(lines, ts, coord) ==
    IF LineOutOfRange(lines, coord.mLine) THEN -1
    ELSE CharIndexWalk(LineAt(lines, coord.mLine), ts, coord.mColumn, 0, 0)

RECURSIVE CharColumnWalk(_, _, _, _, _)
CharColumnWalk(line, ts, idx, i, col) ==
    IF i < idx /\ i < Len(line)
    THEN CharColumnWalk(line, ts, idx, i + UTF8CharLength(line[i + 1]),
                        NextColumn(ts, col, line[i + 1]))
    ELSE col

GetCharacterColumn(lines, ts, l, idx) ==
    IF LineOutOfRange(lines, l) THEN 0
    ELSE CharColumnWalk(LineAt(lines, l), ts, idx, 0, 0)

GetLineMaxColumn(lines, ts, l) ==
    IF LineOutOfRange(lines, l) THEN 0
    ELSE CharColumnWalk(LineAt(lines, l), ts, Len(LineAt(lines, l)), 0, 0)

\* SanitizeCoordinates with the column of a line beyond the end left as given.
SanitizeCoordinatesKeepingColumn(lines, ts, c) ==
    IF c.mLine >= Len(lines)
    THEN Coordinates(Len(lines) - 1, c.mColumn)
    ELSE Coordinates(c.mLine, Min2(c.mColumn, GetLineMaxColumn(lines, ts, c.mLine)))

SanitizeCoordinates(lines, ts, c) ==
    IF c.mLine >= Len(lines)
    THEN IF Len(lines) = 0
         THEN Coordinates(0, 0)
         ELSE Coordinates(Len(lines) - 1, GetLineMaxColumn(lines, ts, Len(lines) - 1))
    ELSE Coordinates(c.mLine,
                     IF Len(lines) = 0 THEN 0
                     ELSE Min2(c.mColumn, GetLineMaxColumn(lines, ts, c.mLine)))

\* ------------------------------------------------------------ fault marking

\* An out-of-range vector access (undefined behaviour): the call stops here.
Fault(e) == [e EXCEPT !.fault = TRUE]

\* A read one element past the end of a line: the call goes on with whatever
\* byte it finds there, or the build stops the program.
StrayRead(e) == [e EXCEPT !.strayRead = TRUE]

\* assert(cond): a failed assertion is recorded; a release build carries on.
AssertThat(e, cond) == IF cond THEN e ELSE [e EXCEPT !.assertFailed = TRUE]

\* ------------------------------------------------------------- line buffer

RECURSIVE GetTextWalk(_, _, _, _, _, _)
GetTextWalk(lines, lstart, istart, lend, iend, result) ==
    IF ~(istart < iend \/ lstart < lend) THEN result
    ELSE IF lstart >= Len(lines) THEN result
    ELSE IF istart < Len(LineAt(lines, lstart))
         THEN GetTextWalk(lines, lstart, istart + 1, lend, iend,
                          Append(result, LineAt(lines, lstart)[istart + 1]))
         ELSE GetTextWalk(lines, lstart + 1, 0, lend, iend, Append(result, NewLine))

\* GetText(aStart, aEnd): the characters between the two coordinates.
GetText(lines, ts, aStart, aEnd) ==
    GetTextWalk(lines, aStart.mLine, GetCharacterIndex(lines, ts, aStart),
                aEnd.mLine, GetCharacterIndex(lines, ts, aEnd), <<>>)

\* The loop that sizes the result reads mLines[i].size() for every i in
\* [aStart.mLine, aEnd.mLine): outside the buffer when aEnd.mLine exceeds it.
GetTextFault(lines, aStart, aEnd) ==
    aStart.mLine < aEnd.mLine /\ (aEnd.mLine > Len(lines) \/ aStart.mLine < 0)

\* GetText(): the whole document.
GetTextAll(lines, ts) ==
    GetText(lines, ts, Coordinates(0, 0), Coordinates(Len(lines), 0))

\* The key a side-table entry moves to; std::map/std::set insert keeps the
\* entry that arrives first (the smallest old key) when two keys collide.
RekeyMarkers(markers, keep(_), newKey(_)) ==
    LET kept == {k \in DOMAIN markers : keep(k)}
        keys == {newKey(k) : k \in kept}
        firstOf(n) == CHOOSE k \in kept :
                          /\ newKey(k) = n
                          /\ \A k2 \in kept : newKey(k2) = n => k <= k2
    IN [n \in keys |-> markers[firstOf(n)]]

\* A RemoveLine(aStart, aEnd) that leaves the last line of the range in place.
RemoveLinesButLast(e, aStart, aEnd) ==
    [e EXCEPT !.mLines = SubSeq(e.mLines, 1, aStart)
                         \o SubSeq(e.mLines, aEnd, Len(e.mLines))]

\* RemoveLine(aStart, aEnd): removes the lines [aStart, aEnd).
RemoveLines(e, aStart, aEnd) ==
    LET e1 == AssertThat(e, ~e.mReadOnly /\ aEnd >= aStart
                            /\ Len(e.mLines) > aEnd - aStart)
        eKey(k) == IF k >= aStart THEN k - 1 ELSE k
        eKeep(k) == ~(eKey(k) >= aStart /\ eKey(k) <= aEnd)
        bKeep(i) == ~(i >= aStart /\ i <= aEnd)
        n == Len(e.mLines)
    IN IF aStart < 0 \/ aStart > aEnd \/ aEnd > n THEN Fault(e1)
       ELSE AssertThat(
              [e1 EXCEPT
                 !.mErrorMarkers = RekeyMarkers(e.mErrorMarkers, eKeep, eKey),
                 !.mBreakpoints = {eKey(i) : i \in {b \in e.mBreakpoints : bKeep(b)}},
                 !.mLines = SubSeq(e.mLines, 1, aStart) \o SubSeq(e.mLines, aEnd + 1, n)],
              n - (aEnd - aStart) > 0)

\* RemoveLine(aIndex): removes one line.
RemoveLine(e, aIndex) ==
    LET e1 == AssertThat(e, ~e.mReadOnly /\ Len(e.mLines) > 1)
        eKey(k) == IF k > aIndex THEN k - 1 ELSE k
        eKeep(k) == eKey(k) - 1 # aIndex
        bKey(i) == IF i >= aIndex THEN i - 1 ELSE i
        n == Len(e.mLines)
    IN IF aIndex < 0 \/ aIndex >= n THEN Fault(e1)
       ELSE AssertThat(
              [e1 EXCEPT
                 !.mErrorMarkers = RekeyMarkers(e.mErrorMarkers, eKeep, eKey),
                 !.mBreakpoints = {bKey(i) : i \in {b \in e.mBreakpoints : b # aIndex}},
                 !.mLines = SubSeq(e.mLines, 1, aIndex) \o SubSeq(e.mLines, aIndex + 2, n)],
              n - 1 > 0)

\* InsertLine(aIndex): a new empty line becomes line aIndex.
InsertLine(e, aIndex) ==
    LET e1 == AssertThat(e, ~e.mReadOnly)
        key(k) == IF k >= aIndex THEN k + 1 ELSE k
        all(k) == TRUE
        n == Len(e.mLines)
    IN IF aIndex < 0 \/ aIndex > n THEN Fault(e1)
       ELSE [e1 EXCEPT
               !.mErrorMarkers = RekeyMarkers(e.mErrorMarkers, all, key),
               !.mBreakpoints = {key(i) : i \in e.mBreakpoints},
               !.mLines = SubSeq(e.mLines, 1, aIndex) \o <<(<<>>)>>
                          \o SubSeq(e.mLines, aIndex + 1, n)]

\* Line l replaced by newLine.
SetLine(e, l, newLine) == [e EXCEPT !.mLines[l + 1] = newLine]

\* line.erase(begin + from, begin + to)
EraseSlice(line, from, to) == SubSeq(line, 1, from) \o SubSeq(line, to + 1, Len(line))

\* line.insert(begin + at, glyphs)
InsertSlice(line, at, glyphs) ==
    SubSeq(line, 1, at) \o glyphs \o SubSeq(line, at + 1, Len(line))

DeleteRange(e, aStart, aEnd) ==
    LET e1 == AssertThat(e, CoordLessEq(aStart, aEnd) /\ ~e.mReadOnly)
        lines == e.mLines
        ts == e.mTabSize
        start == GetCharacterIndex(lines, ts, aStart)
        end == GetCharacterIndex(lines, ts, aEnd)
    IN IF aEnd = aStart THEN e1
       ELSE IF LineOutOfRange(lines, aStart.mLine) \/ LineOutOfRange(lines, aEnd.mLine)
       THEN Fault(e1)
       ELSE IF aStart.mLine = aEnd.mLine
       THEN LET line == LineAt(lines, aStart.mLine)
                n == GetLineMaxColumn(lines, ts, aStart.mLine)
            IN IF aEnd.mColumn >= n
               THEN IF start > Len(line) THEN Fault(e1)
                    ELSE SetLine(e1, aStart.mLine, SubSeq(line, 1, start))
               ELSE IF start > end \/ end > Len(line) THEN Fault(e1)
                    ELSE SetLine(e1, aStart.mLine, EraseSlice(line, start, end))
       ELSE LET firstLine == LineAt(lines, aStart.mLine)
                lastLine == LineAt(lines, aEnd.mLine)
            IN IF start > Len(firstLine) \/ end > Len(lastLine) THEN Fault(e1)
               ELSE LET first1 == SubSeq(firstLine, 1, start)
                        last1 == SubSeq(lastLine, end + 1, Len(lastLine))
                    IN IF aStart.mLine < aEnd.mLine
                       THEN RemoveLines(
                              SetLine(SetLine(e1, aEnd.mLine, last1),
                                      aStart.mLine, first1 \o last1),
                              aStart.mLine + 1, aEnd.mLine + 1)
                       ELSE SetLine(SetLine(e1, aEnd.mLine, last1), aStart.mLine, first1)

\* One pass of the loop of InsertTextAt over the bytes of aValue from position
\* p (1-based) on: r holds the editor, the in/out coordinate, cindex and the
\* number of lines inserted so far.
RECURSIVE InsertTextWalk(_, _, _)
InsertTextWalk(r, aValue, p) ==
    IF p > Len(aValue) \/ r.e.fault THEN r
    ELSE LET c == aValue[p]
             e == r.e
             l == r.where.mLine
         IN IF c = CarriageReturn THEN InsertTextWalk(r, aValue, p + 1)
            ELSE IF LineOutOfRange(e.mLines, l) THEN [r EXCEPT !.e = Fault(e)]
            ELSE IF c = NewLine
            THEN LET line == LineAt(e.mLines, l)
                     e2 == InsertLine(e, l + 1)
                     e3 == IF r.cindex < Len(line) /\ ~e2.fault
                           THEN IF r.cindex < 0 THEN Fault(e2)
                                ELSE SetLine(SetLine(e2, l + 1,
                                                 SubSeq(line, r.cindex + 1, Len(line))),
                                             l, SubSeq(line, 1, r.cindex))
                           ELSE e2
                 IN InsertTextWalk([e |-> e3, where |-> Coordinates(l + 1, 0),
                                    cindex |-> 0, totalLines |-> r.totalLines + 1],
                                   aValue, p + 1)
            ELSE LET line == LineAt(e.mLines, l)
                     d == Min2(UTF8CharLength(c), Len(aValue) - p + 1)
                     bytes == SubSeq(aValue, p, p + d - 1)
                 IN IF r.cindex < 0 \/ r.cindex > Len(line)
                    THEN [r EXCEPT !.e = Fault(e)]
                    ELSE InsertTextWalk(
                           [e |-> SetLine(e, l, InsertSlice(line, r.cindex, bytes)),
                            where |-> Coordinates(l, r.where.mColumn + 1),
                            cindex |-> r.cindex + d, totalLines |-> r.totalLines],
                           aValue, p + d)

\* InsertTextAt(aWhere, aValue): the editor afterwards, the advanced in/out
\* coordinate and the returned number of lines.
InsertTextAt(e, aWhere, aValue) ==
    InsertTextWalk([e |-> AssertThat(e, ~e.mReadOnly), where |-> aWhere,
                    cindex |-> GetCharacterIndex(e.mLines, e.mTabSize, aWhere),
                    totalLines |-> 0],
                   aValue, 1)


\* An AddUndo that appends the record without cutting the history at the index.
AddUndoWithoutTruncation(e, u) ==
    [AssertThat(e, ~e.mReadOnly) EXCEPT
        !.mUndoBuffer = e.mUndoBuffer \o <<u>>,
        !.mUndoIndex = e.mUndoIndex + 1]

AddUndo(e, u) ==
    [AssertThat(e, ~e.mReadOnly) EXCEPT
        !.mUndoBuffer = SubSeq(e.mUndoBuffer, 1, e.mUndoIndex) \o <<u>>,
        !.mUndoIndex = e.mUndoIndex + 1]

\* Colorize(aFromLine, aLines): widens the dirty interval; aLines = -1 means
\* "to the end of the document".
\* A Colorize that makes the requested lines the dirty interval.
ColorizeOnlyRequested(e, aFromLine, aLines) ==
    [e EXCEPT !.mColorRangeMin = Max2(0, aFromLine),
              !.mColorRangeMax = Max2(Max2(0, aFromLine),
                                      Min2(Len(e.mLines), aFromLine + aLines)),
              !.mCheckComments = TRUE]

Colorize(e, aFromLine, aLines) ==
    LET toLine == IF aLines = -1 THEN Len(e.mLines)
                  ELSE Min2(Len(e.mLines), aFromLine + aLines)
        cmin == Max2(0, Min2(e.mColorRangeMin, aFromLine))
        cmax == Max2(cmin, Max2(e.mColorRangeMax, toLine))
    IN [e EXCEPT !.mColorRangeMin = cmin, !.mColorRangeMax = cmax,
                 !.mCheckComments = TRUE]

\* ----------------------------------------------------- cursor and selection

\* e continued by f unless the call has already faulted.
Then(e, f(_)) == IF e.fault THEN e ELSE f(e)

EditorState(cursor, selStart, selEnd) ==
    [mCursorPosition |-> cursor, mSelectionStart |-> selStart, mSelectionEnd |-> selEnd]

\* A default-constructed UndoRecord.
EmptyRecord ==
    [mAdded |-> <<>>, mAddedStart |-> Coordinates(0, 0), mAddedEnd |-> Coordinates(0, 0),
     mRemoved |-> <<>>, mRemovedStart |-> Coordinates(0, 0),
     mRemovedEnd |-> Coordinates(0, 0),
     mBefore |-> EditorState(Coordinates(0, 0), Coordinates(0, 0), Coordinates(0, 0)),
     mAfter |-> EditorState(Coordinates(0, 0), Coordinates(0, 0), Coordinates(0, 0))]

Sanitized(e, c) == SanitizeCoordinates(e.mLines, e.mTabSize, c)

GetActualCursorCoordinates(e) == Sanitized(e, e.mState.mCursorPosition)

HasSelection(e) == CoordLess(e.mState.mSelectionStart, e.mState.mSelectionEnd)

SetCursorPosition(e, aPosition) == [e EXCEPT !.mState.mCursorPosition = aPosition]

SetSelectionStart(e, aPosition) ==
    LET s == Sanitized(e, aPosition)
        t == e.mState.mSelectionEnd
    IN IF CoordLess(t, s)
       THEN [e EXCEPT !.mState.mSelectionStart = t, !.mState.mSelectionEnd = s]
       ELSE [e EXCEPT !.mState.mSelectionStart = s]

SetSelectionEnd(e, aPosition) ==
    LET s == e.mState.mSelectionStart
        t == Sanitized(e, aPosition)
    IN IF CoordLess(t, s)
       THEN [e EXCEPT !.mState.mSelectionStart = t, !.mState.mSelectionEnd = s]
       ELSE [e EXCEPT !.mState.mSelectionEnd = t]


\* A SetSelection that stores the two ends as given, without the swap.
SetSelectionWithoutSwap(e, aStart, aEnd) ==
    [e EXCEPT !.mState.mSelectionStart = Sanitized(e, aStart),
              !.mState.mSelectionEnd = Sanitized(e, aEnd)]

\* SetSelection(aStart, aEnd, SelectionMode::Normal)
SetSelection(e, aStart, aEnd) ==
    LET s == Sanitized(e, aStart)
        t == Sanitized(e, aEnd)
    IN IF CoordLess(t, s)
       THEN [e EXCEPT !.mState.mSelectionStart = t, !.mState.mSelectionEnd = s]
       ELSE [e EXCEPT !.mState.mSelectionStart = s, !.mState.mSelectionEnd = t]

SelectAll(e) == SetSelection(e, Coordinates(0, 0), Coordinates(Len(e.mLines), 0))

GetSelectedText(e) ==
    GetText(e.mLines, e.mTabSize, e.mState.mSelectionStart, e.mState.mSelectionEnd)

GetSelectedTextFault(e) ==
    GetTextFault(e.mLines, e.mState.mSelectionStart, e.mState.mSelectionEnd)

DeleteSelection(e) ==
    LET e1 == AssertThat(e, CoordLessEq(e.mState.mSelectionStart, e.mState.mSelectionEnd))
    IN IF e.mState.mSelectionEnd = e.mState.mSelectionStart THEN e1
       ELSE Then(DeleteRange(e1, e.mState.mSelectionStart, e.mState.mSelectionEnd),
                 LAMBDA e2 :
                   LET e3 == SetSelection(e2, e2.mState.mSelectionStart,
                                          e2.mState.mSelectionStart)
                       e4 == SetCursorPosition(e3, e3.mState.mSelectionStart)
                   IN Colorize(e4, e4.mState.mSelectionStart.mLine, 1))

\* Advance(aCoordinates): the coordinate one character further.
Advance(e, c) ==
    IF c.mLine < Len(e.mLines)
    THEN LET line == LineAt(e.mLines, c.mLine)
             cindex == GetCharacterIndex(e.mLines, e.mTabSize, c)
         IN IF cindex + 1 < Len(line)
            THEN Coordinates(c.mLine,
                     GetCharacterColumn(e.mLines, e.mTabSize, c.mLine,
                         Min2(cindex + UTF8CharLength(line[cindex + 1]), Len(line) - 1)))
            ELSE Coordinates(c.mLine + 1,
                     GetCharacterColumn(e.mLines, e.mTabSize, c.mLine + 1, 0))
    ELSE c

\* ImTextCharToUtf8: the bytes of the code point c; none for a low surrogate.
ImTextCharToUtf8(c) ==
    IF c < 128 THEN <<c>>
    ELSE IF c < 2048 THEN <<192 + (c \div 64), 128 + (c % 64)>>
    ELSE IF c >= 56320 /\ c < 57344 THEN <<>>
    ELSE IF c >= 55296 /\ c < 56320
         THEN <<240 + (c \div 262144), 128 + ((c \div 4096) % 64),
                128 + ((c \div 64) % 64), 128 + (c % 64)>>
    ELSE <<224 + (c \div 4096), 128 + ((c \div 64) % 64), 128 + (c % 64)>>

\* ------------------------------------------------------- language definitions

\* LanguageDefinition::mAutoIndentation of the built-in definitions used.
AutoIndentation(lang) == lang = "CPlusPlus"

\* Whether LanguageDefinition::mTokenize is set (Lua is regex-only).
HasTokenize(lang) == lang = "CPlusPlus"

\* LanguageDefinition::mSingleLineComment: "//" for C++, "--" for Lua.
SingleLineComment(lang) ==
    IF lang = "CPlusPlus" THEN <<SlashChar, SlashChar>> ELSE <<DashChar, DashChar>>

\* -------------------------------------------------------------------- edits

\* The tail of EnterCharacter: close the record, push it, mark the lines dirty.
FinishEnterCharacter(e, u, coord) ==
    LET u1 == [u EXCEPT !.mAddedEnd = GetActualCursorCoordinates(e),
                        !.mAfter = e.mState]
    IN Colorize(AddUndo(e, u1), coord.mLine - 1, 3)

\* The leading run of ASCII blanks of a line (copied by auto-indentation).
RECURSIVE LeadingBlanks(_)
LeadingBlanks(line) ==
    IF line # <<>> /\ IsBlank(Head(line))
    THEN <<Head(line)>> \o LeadingBlanks(Tail(line))
    ELSE <<>>

\* EnterCharacter past the selection handling: insert aChar at the cursor.
EnterCharacterAtCursor(e, u, aChar) ==
    LET coord == GetActualCursorCoordinates(e)
        ts == e.mTabSize
        u1 == [u EXCEPT !.mAddedStart = coord]
        line == LineAt(e.mLines, coord.mLine)
        cindex == GetCharacterIndex(e.mLines, ts, coord)
    IN IF aChar = NewLine
       THEN IF cindex > Len(line) THEN Fault(e)
            ELSE LET e2 == InsertLine(e, coord.mLine + 1)
                     ws == IF AutoIndentation(e.mLanguageDefinition) THEN LeadingBlanks(line) ELSE <<>>
                     newLine == ws \o SubSeq(line, cindex + 1, Len(line))
                     e3 == SetLine(SetLine(e2, coord.mLine + 1, newLine),
                                   coord.mLine, SubSeq(line, 1, cindex))
                     e4 == SetCursorPosition(e3,
                              Coordinates(coord.mLine + 1,
                                  GetCharacterColumn(e3.mLines, ts, coord.mLine + 1, Len(ws))))
                 IN FinishEnterCharacter(e4, [u1 EXCEPT !.mAdded = <<NewLine>>], coord)
       ELSE LET buf == ImTextCharToUtf8(aChar)
            IN IF buf = <<>> THEN e
               ELSE IF cindex > Len(line) THEN Fault(e)
               ELSE LET ow == e.mOverwrite /\ cindex < Len(line)
                        d == IF ow THEN UTF8CharLength(line[cindex + 1]) ELSE 0
                        gone == SubSeq(line, cindex + 1, Min2(cindex + d, Len(line)))
                        u2 == IF ow
                              THEN [u1 EXCEPT
                                      !.mRemovedStart = e.mState.mCursorPosition,
                                      !.mRemovedEnd = Coordinates(coord.mLine,
                                          GetCharacterColumn(e.mLines, ts, coord.mLine,
                                                             cindex + d)),
                                      !.mRemoved = u1.mRemoved \o gone]
                              ELSE u1
                        line1 == EraseSlice(line, cindex, cindex + Len(gone))
                        e3 == SetLine(e, coord.mLine, InsertSlice(line1, cindex, buf))
                        e4 == SetCursorPosition(e3,
                                 Coordinates(coord.mLine,
                                     GetCharacterColumn(e3.mLines, ts, coord.mLine,
                                                        cindex + Len(buf))))
                    IN FinishEnterCharacter(e4, [u2 EXCEPT !.mAdded = buf], coord)

\* Shift+Tab on one line: one leading tab, or up to mTabSize leading spaces, go.
RECURSIVE DropSpaces(_, _)
DropSpaces(line, j) ==
    IF j > 0 /\ line # <<>> /\ Head(line) = SpaceChar
    THEN DropSpaces(Tail(line), j - 1)
    ELSE line

OutdentLine(line, ts) ==
    IF line = <<>> THEN line
    ELSE IF Head(line) = TabChar THEN Tail(line)
    ELSE DropSpaces(line, ts)

\* EnterCharacter('\t', aShift) with a selection that spans several lines.
EnterTabOnSelection(e, u, aShift) ==
    LET ts == e.mTabSize
        n == Len(e.mLines)
        s0 == e.mState.mSelectionStart
        t0 == e.mState.mSelectionEnd
        originalEnd == t0
        swapped == CoordLess(t0, s0)
        sA == IF swapped THEN t0 ELSE s0
        tA == IF swapped THEN s0 ELSE t0
        start == Coordinates(sA.mLine, 0)
        endLine1 == IF tA.mColumn = 0 /\ tA.mLine > 0 THEN tA.mLine - 1 ELSE tA.mLine
        endLine == IF endLine1 >= n THEN n - 1 ELSE endLine1
        end == Coordinates(endLine, GetLineMaxColumn(e.mLines, ts, endLine))
        u1 == [u EXCEPT !.mRemovedStart = start, !.mRemovedEnd = end,
                        !.mRemoved = GetText(e.mLines, ts, start, end)]
        touched == start.mLine .. end.mLine
        changed(l) == IF aShift THEN OutdentLine(LineAt(e.mLines, l), ts)
                      ELSE <<TabChar>> \o LineAt(e.mLines, l)
        newLines == [i \in 1 .. n |->
                        IF (i - 1) \in touched THEN changed(i - 1) ELSE e.mLines[i]]
        modified == \E l \in touched : changed(l) # LineAt(e.mLines, l)
        start2 == Coordinates(start.mLine,
                              GetCharacterColumn(newLines, ts, start.mLine, 0))
        end2 == IF originalEnd.mColumn # 0
                THEN Coordinates(end.mLine, GetLineMaxColumn(newLines, ts, end.mLine))
                ELSE Coordinates(originalEnd.mLine, 0)
        rangeEnd == IF originalEnd.mColumn # 0 THEN end2
                    ELSE Coordinates(end2.mLine - 1,
                                     GetLineMaxColumn(newLines, ts, end2.mLine - 1))
        u2 == [u1 EXCEPT !.mAdded = GetText(newLines, ts, start2, rangeEnd),
                         !.mAddedStart = start2, !.mAddedEnd = rangeEnd,
                         !.mAfter = e.mState]
    IN IF GetTextFault(e.mLines, start, end) THEN Fault(e)
       ELSE IF ~modified THEN e
       ELSE IF GetTextFault(newLines, start2, rangeEnd)
            THEN Fault([e EXCEPT !.mLines = newLines])
       ELSE AddUndo([e EXCEPT !.mLines = newLines,
                              !.mState.mSelectionStart = start2,
                              !.mState.mSelectionEnd = end2], u2)

EnterCharacter(e, aChar, aShift) ==
    LET e0 == AssertThat(e, ~e.mReadOnly)
        u0 == [EmptyRecord EXCEPT !.mBefore = e.mState]
    IN IF HasSelection(e)
       THEN IF aChar = TabChar
               /\ e.mState.mSelectionStart.mLine # e.mState.mSelectionEnd.mLine
            THEN EnterTabOnSelection(e0, u0, aShift)
            ELSE IF GetSelectedTextFault(e) THEN Fault(e0)
            ELSE Then(DeleteSelection(e0),
                      LAMBDA e1 : EnterCharacterAtCursor(e1,
                          [u0 EXCEPT !.mRemoved = GetSelectedText(e),
                                     !.mRemovedStart = e.mState.mSelectionStart,
                                     !.mRemovedEnd = e.mState.mSelectionEnd],
                          aChar))
       ELSE EnterCharacterAtCursor(e0, u0, aChar)

\* The branch Delete, Backspace, Cut and Paste share: record and delete the
\* selection.  Returns the editor and the record.
DeleteSelectionRecorded(e, u) ==
    [e |-> IF GetSelectedTextFault(e) THEN Fault(e) ELSE DeleteSelection(e),
     u |-> [u EXCEPT !.mRemoved = GetSelectedText(e),
                     !.mRemovedStart = e.mState.mSelectionStart,
                     !.mRemovedEnd = e.mState.mSelectionEnd]]

\* The tail of Delete, Backspace, Cut and Paste: u.mAfter = mState; AddUndo(u).
PushRecord(e, u) == Then(e, LAMBDA x : AddUndo(x, [u EXCEPT !.mAfter = x.mState]))

Delete(e) ==
    LET e0 == AssertThat(e, ~e.mReadOnly)
        u0 == [EmptyRecord EXCEPT !.mBefore = e.mState]
        ts == e.mTabSize
    IN IF HasSelection(e)
       THEN LET r == DeleteSelectionRecorded(e0, u0) IN PushRecord(r.e, r.u)
       ELSE LET pos == GetActualCursorCoordinates(e0)
                e1 == SetCursorPosition(e0, pos)
                line == LineAt(e1.mLines, pos.mLine)
            IN IF pos.mColumn = GetLineMaxColumn(e1.mLines, ts, pos.mLine)
               THEN IF pos.mLine = Len(e1.mLines) - 1 THEN e1
                    ELSE LET u1 == [u0 EXCEPT !.mRemoved = <<NewLine>>,
                                              !.mRemovedStart = pos,
                                              !.mRemovedEnd = Advance(e1, pos)]
                             e2 == SetLine(e1, pos.mLine,
                                           line \o LineAt(e1.mLines, pos.mLine + 1))
                             e3 == RemoveLine(e2, pos.mLine + 1)
                         IN PushRecord(Then(e3, LAMBDA x : Colorize(x, pos.mLine, 1)), u1)
               ELSE LET cindex == GetCharacterIndex(e1.mLines, ts, pos)
                        rend == Coordinates(pos.mLine, pos.mColumn + 1)
                        u1 == [u0 EXCEPT !.mRemovedStart = pos, !.mRemovedEnd = rend,
                                         !.mRemoved = GetText(e1.mLines, ts, pos, rend)]
                    IN IF cindex >= Len(line)
                       THEN \* line[cindex] is read one past the end: whatever length
                            \* comes of it, the erase loop finds cindex >= size.
                            PushRecord(Colorize(StrayRead(e1), pos.mLine, 1), u1)
                       ELSE LET d == UTF8CharLength(line[cindex + 1])
                                e2 == SetLine(e1, pos.mLine,
                                         EraseSlice(line, cindex,
                                                    Min2(cindex + d, Len(line))))
                            IN PushRecord(Colorize(e2, pos.mLine, 1), u1)

\* The index Backspace steps back to: over the continuation bytes before it.
RECURSIVE SkipBackUTF(_, _)
SkipBackUTF(line, cindex) ==
    IF cindex > 0 /\ IsUTFSequence(line[cindex + 1])
    THEN SkipBackUTF(line, cindex - 1)
    ELSE cindex

Backspace(e) ==
    LET e0 == AssertThat(e, ~e.mReadOnly)
        u0 == [EmptyRecord EXCEPT !.mBefore = e.mState]
        ts == e.mTabSize
    IN IF HasSelection(e)
       THEN LET r == DeleteSelectionRecorded(e0, u0) IN PushRecord(r.e, r.u)
       ELSE LET pos == GetActualCursorCoordinates(e0)
                e1 == SetCursorPosition(e0, pos)
                l == pos.mLine
            IN IF pos.mColumn = 0
               THEN IF l = 0 THEN e1
                    ELSE LET rs == Coordinates(l - 1, GetLineMaxColumn(e1.mLines, ts, l - 1))
                             u1 == [u0 EXCEPT !.mRemoved = <<NewLine>>,
                                              !.mRemovedStart = rs,
                                              !.mRemovedEnd = Advance(e1, rs)]
                             prevSize == GetLineMaxColumn(e1.mLines, ts, l - 1)
                             e2 == SetLine(e1, l - 1,
                                      LineAt(e1.mLines, l - 1) \o LineAt(e1.mLines, l))
                             key(k) == IF k - 1 = l THEN k - 1 ELSE k
                             all(k) == TRUE
                             e3 == [e2 EXCEPT !.mErrorMarkers =
                                       RekeyMarkers(e2.mErrorMarkers, all, key)]
                             e4 == RemoveLine(e3, l)
                         IN PushRecord(
                              Then(e4, LAMBDA x :
                                Colorize(SetCursorPosition(x, Coordinates(l - 1, prevSize)),
                                         l - 1, 1)),
                              u1)
               ELSE LET line == LineAt(e1.mLines, l)
                        cend == GetCharacterIndex(e1.mLines, ts, pos)
                    IN IF cend - 1 >= Len(line) THEN Fault(e1)
                       ELSE LET cindex == SkipBackUTF(line, cend - 1)
                                u1 == [u0 EXCEPT
                                         !.mRemovedStart = Coordinates(l, pos.mColumn - 1),
                                         !.mRemovedEnd = pos,
                                         !.mRemoved = SubSeq(line, cindex + 1, cend)]
                                e2 == SetLine(e1, l, EraseSlice(line, cindex, cend))
                                e3 == SetCursorPosition(e2, Coordinates(l, pos.mColumn - 1))
                            IN PushRecord(Colorize(e3, l, 1), u1)

\* Copy(): the selection, or the cursor's line, goes to the clipboard.
Copy(e) ==
    IF HasSelection(e)
    THEN IF GetSelectedTextFault(e) THEN Fault(e)
         ELSE [e EXCEPT !.clipboard = GetSelectedText(e)]
    ELSE [e EXCEPT !.clipboard = LineAt(e.mLines, GetActualCursorCoordinates(e).mLine)]

Cut(e) ==
    IF e.mReadOnly THEN Copy(e)
    ELSE IF HasSelection(e)
         THEN LET u0 == [EmptyRecord EXCEPT !.mBefore = e.mState]
                  r == DeleteSelectionRecorded(Copy(e), u0)
              IN PushRecord(r.e, r.u)
         ELSE e

InsertText(e, aValue) ==
    LET pos == GetActualCursorCoordinates(e)
        start == CoordMin(pos, e.mState.mSelectionStart)
        r == InsertTextAt(e, pos, aValue)
    IN Then(r.e, LAMBDA x :
          Colorize(SetCursorPosition(SetSelection(x, r.where, r.where), r.where),
                   start.mLine - 1, (pos.mLine - start.mLine) + r.totalLines + 2))

\* Paste() with the clipboard holding clipText.
Paste(e) ==
    IF e.mReadOnly \/ e.clipboard = <<>> THEN e
    ELSE LET u0 == [EmptyRecord EXCEPT !.mBefore = e.mState]
             r == IF HasSelection(e) THEN DeleteSelectionRecorded(e, u0)
                  ELSE [e |-> e, u |-> u0]
         IN Then(r.e, LAMBDA e1 :
              LET u1 == [r.u EXCEPT !.mAdded = e.clipboard,
                                    !.mAddedStart = GetActualCursorCoordinates(e1)]
              IN Then(InsertText(e1, e.clipboard), LAMBDA e2 :
                   PushRecord(e2, [u1 EXCEPT
                                     !.mAddedEnd = GetActualCursorCoordinates(e2)])))

\* ------------------------------------------------------------ undo and redo


\* A CanUndo that forgets the read-only flag.
CanUndoIgnoringReadOnly(e) == e.mUndoIndex > 0

CanUndo(e) == ~e.mReadOnly /\ e.mUndoIndex > 0

CanRedo(e) == ~e.mReadOnly /\ e.mUndoIndex < Len(e.mUndoBuffer)

\* UndoRecord::Undo
UndoRecordUndo(e, u) ==
    LET e1 == IF u.mAdded # <<>>
              THEN Then(DeleteRange(e, u.mAddedStart, u.mAddedEnd), LAMBDA x :
                     Colorize(x, u.mAddedStart.mLine - 1,
                              u.mAddedEnd.mLine - u.mAddedStart.mLine + 2))
              ELSE e
        e2 == IF u.mRemoved # <<>>
              THEN Then(e1, LAMBDA x :
                     Then(InsertTextAt(x, u.mRemovedStart, u.mRemoved).e, LAMBDA y :
                       Colorize(y, u.mRemovedStart.mLine - 1,
                                u.mRemovedEnd.mLine - u.mRemovedStart.mLine + 2)))
              ELSE e1
    IN Then(e2, LAMBDA x : [x EXCEPT !.mState = u.mBefore])

\* UndoRecord::Redo
UndoRecordRedo(e, u) ==
    LET e1 == IF u.mRemoved # <<>>
              THEN Then(DeleteRange(e, u.mRemovedStart, u.mRemovedEnd), LAMBDA x :
                     Colorize(x, u.mRemovedStart.mLine - 1,
                              u.mRemovedEnd.mLine - u.mRemovedStart.mLine + 1))
              ELSE e
        e2 == IF u.mAdded # <<>>
              THEN Then(e1, LAMBDA x :
                     Then(InsertTextAt(x, u.mAddedStart, u.mAdded).e, LAMBDA y :
                       Colorize(y, u.mAddedStart.mLine - 1,
                                u.mAddedEnd.mLine - u.mAddedStart.mLine + 1)))
              ELSE e1
    IN Then(e2, LAMBDA x : [x EXCEPT !.mState = u.mAfter])

\* An Undo that undoes one record however many steps are asked for.
UndoSingleStep(e, aSteps) ==
    IF CanUndo(e) /\ aSteps > 0 /\ ~e.fault
    THEN UndoRecordUndo([e EXCEPT !.mUndoIndex = e.mUndoIndex - 1],
                        e.mUndoBuffer[e.mUndoIndex])
    ELSE e

RECURSIVE Undo(_, _)
Undo(e, aSteps) ==
    IF CanUndo(e) /\ aSteps > 0 /\ ~e.fault
    THEN Undo(UndoRecordUndo([e EXCEPT !.mUndoIndex = e.mUndoIndex - 1],
                             e.mUndoBuffer[e.mUndoIndex]),
              aSteps - 1)
    ELSE e

RECURSIVE Redo(_, _)
Redo(e, aSteps) ==
    IF CanRedo(e) /\ aSteps > 0 /\ ~e.fault
    THEN Redo(UndoRecordRedo([e EXCEPT !.mUndoIndex = e.mUndoIndex + 1],
                             e.mUndoBuffer[e.mUndoIndex + 1]),
              aSteps - 1)
    ELSE e

\* ------------------------------------------------------------ loading text

\* The lines SetText makes of a text: '\r' dropped, a new line at every '\n'.
RECURSIVE SplitLines(_, _)
SplitLines(aText, lines) ==
    IF aText = <<>> THEN lines
    ELSE LET chr == Head(aText)
             n == Len(lines)
         IN IF chr = CarriageReturn THEN SplitLines(Tail(aText), lines)
            ELSE IF chr = NewLine THEN SplitLines(Tail(aText), Append(lines, <<>>))
            ELSE SplitLines(Tail(aText), [lines EXCEPT ![n] = Append(lines[n], chr)])


\* A reset of the history that rewinds the index and keeps the records.
ClearUndoIndexOnly(e) == [e EXCEPT !.mUndoIndex = 0]

ClearUndo(e) == [e EXCEPT !.mUndoBuffer = <<>>, !.mUndoIndex = 0]

SetText(e, aText) ==
    Colorize(ClearUndo([e EXCEPT !.mLines = SplitLines(aText, <<(<<>>)>>)]), 0, -1)

\* A SetTextLines that forgets the branch for an empty list of lines.
SetTextLinesWithoutEmptyBranch(e, aLines) ==
    Colorize(ClearUndo([e EXCEPT !.mLines = aLines]), 0, -1)

SetTextLines(e, aLines) ==
    Colorize(ClearUndo([e EXCEPT !.mLines = IF aLines = <<>> THEN <<(<<>>)>>
                                            ELSE aLines]), 0, -1)

\* --------------------------------------------------------------- colorizing

\* A ColorizeInternal that leaves the consumed interval as it is, without
\* the reset to the sentinel.
ColorizeInternalWithoutReset(e) ==
    IF Len(e.mLines) = 0 \/ ~e.mColorizerEnabled THEN e
    ELSE IF e.mColorRangeMin < e.mColorRangeMax
         THEN [e EXCEPT !.mCheckComments = FALSE,
                        !.mColorRangeMin =
                            Min2(e.mColorRangeMin +
                                     (IF ~HasTokenize(e.mLanguageDefinition)
                                      THEN 10 ELSE 10000),
                                 e.mColorRangeMax)]
         ELSE [e EXCEPT !.mCheckComments = FALSE]

\* A ColorizeInternal that consumes the whole dirty interval at once.
ColorizeInternalWholeInterval(e) ==
    IF Len(e.mLines) = 0 \/ ~e.mColorizerEnabled THEN e
    ELSE IF e.mColorRangeMin < e.mColorRangeMax
         THEN [e EXCEPT !.mCheckComments = FALSE,
                        !.mColorRangeMin = ColorRangeSentinel,
                        !.mColorRangeMax = 0]
         ELSE [e EXCEPT !.mCheckComments = FALSE]

\* ColorizeInternal: the comment sweep is due no more, and one batch of the
\* dirty interval is consumed.
ColorizeInternal(e) ==
    IF Len(e.mLines) = 0 \/ ~e.mColorizerEnabled THEN e
    ELSE LET e1 == [e EXCEPT !.mCheckComments = FALSE]
         IN IF e.mColorRangeMin < e.mColorRangeMax
            THEN LET increment == IF ~HasTokenize(e.mLanguageDefinition)
                                  THEN 10 ELSE 10000
                     to == Min2(e.mColorRangeMin + increment, e.mColorRangeMax)
                 IN IF e.mColorRangeMax = to
                    THEN [e1 EXCEPT !.mColorRangeMin = ColorRangeSentinel,
                                    !.mColorRangeMax = 0]
                    ELSE [e1 EXCEPT !.mColorRangeMin = to]
            ELSE e1

\* ----------------------------------------------------------- cursor movement

\* The tail the Move operations share: the interactive range follows the
\* cursor (anchored at the end that was not the old cursor when selecting),
\* then SetSelection(mInteractiveStart, mInteractiveEnd).  startFirst tells
\* which end is tested first against the old cursor position.
MoveSelect(e, oldPos, aSelect, startFirst, backwards) ==
    LET cur == e.mState.mCursorPosition
        is == e.mInteractiveStart
        ie == e.mInteractiveEnd
        hitStart == IF startFirst THEN oldPos = is ELSE (oldPos # ie /\ oldPos = is)
        hitEnd == IF startFirst THEN (oldPos # is /\ oldPos = ie) ELSE oldPos = ie
        is2 == IF ~aSelect THEN cur
               ELSE IF hitStart THEN cur
               ELSE IF hitEnd THEN is
               ELSE IF backwards THEN cur ELSE oldPos
        ie2 == IF ~aSelect THEN cur
               ELSE IF hitStart THEN ie
               ELSE IF hitEnd THEN cur
               ELSE IF backwards THEN oldPos ELSE cur
    IN SetSelection([e EXCEPT !.mInteractiveStart = is2, !.mInteractiveEnd = ie2],
                    is2, ie2)

MoveUp(e, aAmount, aSelect) ==
    LET oldPos == e.mState.mCursorPosition
        e1 == [e EXCEPT !.mState.mCursorPosition.mLine = Max2(0, oldPos.mLine - aAmount)]
    IN IF oldPos # e1.mState.mCursorPosition
       THEN MoveSelect(e1, oldPos, aSelect, TRUE, TRUE)
       ELSE e1

MoveDown(e, aAmount, aSelect) ==
    LET oldPos == e.mState.mCursorPosition
        e1 == [e EXCEPT !.mState.mCursorPosition.mLine =
                  Max2(0, Min2(Len(e.mLines) - 1, oldPos.mLine + aAmount))]
    IN IF oldPos # e1.mState.mCursorPosition
       THEN MoveSelect(e1, oldPos, aSelect, FALSE, FALSE)
       ELSE e1

\* MoveLeft(1, aSelect, false)
MoveLeft(e, aSelect) ==
    LET oldPos == e.mState.mCursorPosition
        pos == GetActualCursorCoordinates(e)
        ts == e.mTabSize
        cindex == GetCharacterIndex(e.mLines, ts, pos)
        l == pos.mLine
        line == LineAt(e.mLines, l)
        l2 == IF cindex = 0 /\ l > 0 THEN l - 1 ELSE l
        c2 == IF cindex = 0
              THEN IF l > 0 THEN Len(LineAt(e.mLines, l - 1)) ELSE 0
              ELSE SkipBackUTF(line, cindex - 1)
    IN IF Len(e.mLines) = 0 THEN e
       ELSE IF cindex - 1 >= Len(line) THEN Fault(e)
       ELSE MoveSelect(
              SetCursorPosition(e, Coordinates(l2,
                                    GetCharacterColumn(e.mLines, ts, l2, c2))),
              oldPos, aSelect, TRUE, TRUE)

\* MoveRight(1, aSelect, false)
MoveRight(e, aSelect) ==
    LET oldPos == e.mState.mCursorPosition
        ts == e.mTabSize
        cindex == GetCharacterIndex(e.mLines, ts, oldPos)
        l == oldPos.mLine
        line == LineAt(e.mLines, l)
        tail(x) ==
            LET cur == x.mState.mCursorPosition
                is == x.mInteractiveStart
                ie == x.mInteractiveEnd
                is2 == IF ~aSelect THEN cur
                       ELSE IF oldPos = ie THEN is
                       ELSE IF oldPos = is THEN cur
                       ELSE oldPos
                ie2 == IF ~aSelect THEN cur
                       ELSE IF oldPos = ie THEN Sanitized(x, cur)
                       ELSE IF oldPos = is THEN ie
                       ELSE cur
            IN SetSelection([x EXCEPT !.mInteractiveStart = is2,
                                      !.mInteractiveEnd = ie2], is2, ie2)
    IN IF Len(e.mLines) = 0 \/ LineOutOfRange(e.mLines, l) THEN e
       ELSE IF cindex >= Len(line)
       THEN IF l < Len(e.mLines) - 1
            THEN tail(SetCursorPosition(e, Coordinates(l + 1, 0)))
            ELSE e
       ELSE tail(SetCursorPosition(e, Coordinates(l,
                    GetCharacterColumn(e.mLines, ts, l,
                                       cindex + UTF8CharLength(line[cindex + 1])))))

MoveTop(e, aSelect) ==
    LET oldPos == e.mState.mCursorPosition
        e1 == SetCursorPosition(e, Coordinates(0, 0))
        cur == e1.mState.mCursorPosition
    IN IF cur # oldPos
       THEN SetSelection([e1 EXCEPT !.mInteractiveStart = cur,
                                    !.mInteractiveEnd = IF aSelect THEN oldPos ELSE cur],
                         cur, IF aSelect THEN oldPos ELSE cur)
       ELSE e1

MoveBottom(e, aSelect) ==
    LET oldPos == e.mState.mCursorPosition
        newPos == Coordinates(Len(e.mLines) - 1, 0)
        e1 == SetCursorPosition(e, newPos)
        is2 == IF aSelect THEN oldPos ELSE newPos
    IN SetSelection([e1 EXCEPT !.mInteractiveStart = is2, !.mInteractiveEnd = newPos],
                    is2, newPos)

MoveHome(e, aSelect) ==
    LET oldPos == e.mState.mCursorPosition
        e1 == SetCursorPosition(e, Coordinates(oldPos.mLine, 0))
    IN IF e1.mState.mCursorPosition # oldPos
       THEN MoveSelect(e1, oldPos, aSelect, TRUE, TRUE)
       ELSE e1

MoveEnd(e, aSelect) ==
    LET oldPos == e.mState.mCursorPosition
        e1 == SetCursorPosition(e, Coordinates(oldPos.mLine,
                 GetLineMaxColumn(e.mLines, e.mTabSize, oldPos.mLine)))
    IN IF e1.mState.mCursorPosition # oldPos
       THEN MoveSelect(e1, oldPos, aSelect, FALSE, FALSE)
       ELSE e1

\* ------------------------------------------------------------ comment toggle

\* Index of the first non-whitespace byte of a line (its length if none).
RECURSIVE FirstNonWs(_, _)
FirstNonWs(line, i) ==
    IF i < Len(line) /\ IsSpace(line[i + 1]) THEN FirstNonWs(line, i + 1) ELSE i

\* Whether the line holds "//" right after its leading whitespace.
HasLinePrefix(line) ==
    LET nw == FirstNonWs(line, 0)
    IN nw + 1 < Len(line) /\ line[nw + 1] = SlashChar /\ line[nw + 2] = SlashChar

BlockOpen == <<SlashChar, StarChar>>
BlockClose == <<StarChar, SlashChar>>

\* ToggleComment(true): the block-comment branch.
ToggleBlockComment(e, u) ==
    IF ~HasSelection(e)
    THEN LET coord == GetActualCursorCoordinates(e)
             r == InsertTextAt(e, coord, BlockOpen \o <<SpaceChar>> \o BlockClose)
         IN Then(r.e, LAMBDA x :
              LET e1 == SetCursorPosition(x, Coordinates(coord.mLine, coord.mColumn + 2))
              IN AddUndo(e1, [u EXCEPT
                                !.mAdded = BlockOpen \o <<SpaceChar>> \o BlockClose,
                                !.mAddedStart = coord,
                                !.mAddedEnd = Coordinates(coord.mLine, coord.mColumn + 4),
                                !.mAfter = e1.mState]))
    ELSE LET s0 == Sanitized(e, e.mState.mSelectionStart)
             t0 == Sanitized(e, e.mState.mSelectionEnd)
             selStart == IF CoordLess(t0, s0) THEN t0 ELSE s0
             selEnd == IF CoordLess(t0, s0) THEN s0 ELSE t0
             selText == GetText(e.mLines, e.mTabSize, selStart, selEnd)
             k == Len(selText)
             isWrapped == k >= 4 /\ SubSeq(selText, 1, 2) = BlockOpen
                          /\ SubSeq(selText, k - 1, k) = BlockClose
             newText == IF isWrapped THEN SubSeq(selText, 3, k - 2)
                        ELSE BlockOpen \o selText \o BlockClose
         IN Then(DeleteRange(e, selStart, selEnd), LAMBDA e1 :
              LET r == InsertTextAt(e1, selStart, newText)
              IN Then(r.e, LAMBDA e2 :
                   LET e3 == [e2 EXCEPT !.mState.mSelectionStart = selStart,
                                        !.mState.mSelectionEnd = r.where]
                   IN AddUndo(e3, [u EXCEPT !.mRemoved = selText,
                                            !.mRemovedStart = selStart,
                                            !.mRemovedEnd = selEnd,
                                            !.mAdded = newText,
                                            !.mAddedStart = selStart,
                                            !.mAddedEnd = r.where,
                                            !.mAfter = e3.mState])))

\* A coordinate after "//" was removed from (uncomment) or inserted into line
\* c.mLine at byte index nw, when that line is one of the lines changed.
ShiftColumn(c, changedLines, nwOf(_), uncomment) ==
    IF c.mLine \in changedLines
    THEN LET nw == nwOf(c.mLine)
         IN IF uncomment
            THEN IF c.mColumn > nw
                 THEN Coordinates(c.mLine, Max2(nw, c.mColumn - 2)) ELSE c
            ELSE IF c.mColumn >= nw
                 THEN Coordinates(c.mLine, c.mColumn + 2) ELSE c
    ELSE c

\* ToggleComment(false): the line-comment branch.
ToggleLineComment(e, u, startLine, endLine) ==
    LET n == Len(e.mLines)
        span == {l \in startLine .. endLine : l < n}
        nonEmpty == {l \in span : LineAt(e.mLines, l) # <<>>}
        uncommentAll == /\ startLine < n
                        /\ HasLinePrefix(LineAt(e.mLines, startLine))
                        /\ \A l \in nonEmpty : HasLinePrefix(LineAt(e.mLines, l))
        nwOf(l) == FirstNonWs(LineAt(e.mLines, l), 0)
        changedLines == nonEmpty
        newLine(l) ==
            LET line == LineAt(e.mLines, l)
            IN IF uncommentAll THEN EraseSlice(line, nwOf(l), nwOf(l) + 2)
               ELSE InsertSlice(line, nwOf(l), <<SlashChar, SlashChar>>)
        newLines == [i \in 1 .. n |->
                        IF (i - 1) \in changedLines THEN newLine(i - 1) ELSE e.mLines[i]]
        didModify == changedLines # {}
        st == e.mState
        e1 == [e EXCEPT
                 !.mLines = newLines,
                 !.mState = EditorState(
                     ShiftColumn(st.mCursorPosition, changedLines, nwOf, uncommentAll),
                     ShiftColumn(st.mSelectionStart, changedLines, nwOf, uncommentAll),
                     ShiftColumn(st.mSelectionEnd, changedLines, nwOf, uncommentAll))]
        beg == Coordinates(startLine, 0)
        end == Coordinates(endLine, GetLineMaxColumn(newLines, e.mTabSize, endLine))
        e2 == IF ~didModify THEN e1
              ELSE IF GetTextFault(newLines, beg, end) THEN Fault(e1)
              ELSE AddUndo(e1, [u EXCEPT
                                  !.mAdded = GetText(newLines, e.mTabSize, beg, end),
                                  !.mAddedStart = beg, !.mAddedEnd = end,
                                  !.mAfter = e1.mState])
    IN Then(e2, LAMBDA x :
          [x EXCEPT !.mColorRangeMin = Min2(x.mColorRangeMin, startLine),
                    !.mColorRangeMax = Max2(x.mColorRangeMax, endLine + 1)])

ToggleComment(e, shift) ==
    LET st == e.mState
        multi == st.mSelectionStart.mLine # st.mSelectionEnd.mLine
        startLine == IF multi THEN Min2(st.mSelectionStart.mLine, st.mSelectionEnd.mLine)
                     ELSE st.mCursorPosition.mLine
        endLine == IF multi THEN Max2(st.mSelectionStart.mLine, st.mSelectionEnd.mLine)
                   ELSE st.mCursorPosition.mLine
        u == [EmptyRecord EXCEPT !.mBefore = st]
    IN IF startLine < Len(e.mLines) /\ LineAt(e.mLines, startLine) = <<>>
          /\ endLine = startLine
       THEN e
       ELSE IF shift THEN ToggleBlockComment(e, u)
       ELSE ToggleLineComment(e, u, startLine, endLine)

\* ------------------------------------------------------------ state machine

VARIABLES
    mLines,             \* the document: a sequence of lines of bytes
    mState,             \* EditorState: cursor, selection start, selection end
    mInteractiveStart,  \* the anchor pair kept by the Move operations
    mInteractiveEnd,
    mUndoBuffer,        \* the undo history
    mUndoIndex,         \* the number of records before the history cursor
    mReadOnly,
    mOverwrite,
    mTabSize,
    mColorizerEnabled,
    mColorRangeMin,     \* the dirty interval [mColorRangeMin, mColorRangeMax)
    mColorRangeMax,
    mCheckComments,
    mLanguageDefinition,
    mErrorMarkers,      \* line -> message
    mBreakpoints,       \* set of lines
    clipboard,          \* the host's clipboard text
    fault,              \* an out-of-range access has happened
    assertFailed,       \* an assert of the source has failed
    lastOp,             \* the operation that led to this state
    steps,              \* operations performed so far
    undoBefore,         \* undo index and history length before the last operation
    runLen,             \* record-pushing edits made in a row, ending with the last operation
    runText,            \* GetText() before the first edit of that run
    aValue,             \* the coordinate last handed to SanitizeCoordinates on its own
    sanitized,          \* what SanitizeCoordinates made of it
    given,              \* the arguments of the last call of a function on its own,
                        \* and the document it was called on
    returned,           \* what that call returned
    plugin              \* the plugin around the editor: its flags, its mutex and
                        \* where each thread stands in a callback

vars == <<mLines, mState, mInteractiveStart, mInteractiveEnd, mUndoBuffer,
          mUndoIndex, mReadOnly, mOverwrite, mTabSize, mColorizerEnabled,
          mColorRangeMin, mColorRangeMax, mCheckComments, mLanguageDefinition,
          mErrorMarkers, mBreakpoints, clipboard, fault, assertFailed, lastOp, steps,
          undoBefore, runLen, runText, aValue, sanitized, given, returned, plugin>>

\* The threads the host calls the plugin on.
MaxThreads == 2
Threads == 1 .. MaxThreads

\* The plugin as constructed: m_initialized and m_was_rendering_desktop
\* false, m_imgui_mutex free (owner 0), no thread inside a callback.
ExamplePlugin ==
    [m_initialized |-> FALSE, m_was_rendering_desktop |-> FALSE,
     owner |-> 0, pc |-> [t \in Threads |-> "host"]]

\* The editor value of the current state.
Editor ==
    [mLines |-> mLines, mState |-> mState,
     mInteractiveStart |-> mInteractiveStart, mInteractiveEnd |-> mInteractiveEnd,
     mUndoBuffer |-> mUndoBuffer, mUndoIndex |-> mUndoIndex,
     mReadOnly |-> mReadOnly, mOverwrite |-> mOverwrite, mTabSize |-> mTabSize,
     mColorizerEnabled |-> mColorizerEnabled,
     mColorRangeMin |-> mColorRangeMin, mColorRangeMax |-> mColorRangeMax,
     mCheckComments |-> mCheckComments, mLanguageDefinition |-> mLanguageDefinition,
     mErrorMarkers |-> mErrorMarkers, mBreakpoints |-> mBreakpoints,
     clipboard |-> clipboard, fault |-> fault, assertFailed |-> assertFailed,
     strayRead |-> FALSE]

\* The document stays inside the bounds of the model.
WithinBounds(e) ==
    /\ Len(e.mLines) <= MaxLines
    /\ \A i \in 1 .. Len(e.mLines) : Len(e.mLines[i]) <= MaxLineLen
    /\ Len(e.mUndoBuffer) <= MaxUndo

\* The edits of the keyboard that push an undo record when they change the text.
RecordingEdits == {"EnterCharacter", "Delete", "Backspace", "Cut", "Paste"}

\* The ways a call may end: an out-of-range access of the line vector stops
\* the program, a read one past the end of a line may stop it or not.
Halts(r) == IF r.fault THEN {TRUE} ELSE IF r.strayRead THEN {TRUE, FALSE} ELSE {FALSE}

\* The step of an operation: the editor becomes r.  Once the program has
\* stopped nothing more is known of the object: only the fault is recorded,
\* and every operation is guarded by ~fault.
Becomes(r, op) ==
    /\ steps < MaxSteps
    /\ WithinBounds(r)
    /\ steps' = steps + 1
    /\ lastOp' = op
    /\ undoBefore' = [mUndoIndex |-> mUndoIndex, size |-> Len(mUndoBuffer)]
    /\ UNCHANGED <<aValue, sanitized, given, returned, plugin>>
    /\ \E halted \in Halts(r) :
          /\ fault' = halted
          /\ IF ~halted /\ op \in RecordingEdits /\ r.mUndoIndex # mUndoIndex
             THEN /\ runLen' = runLen + 1
                  /\ runText' = IF runLen = 0 THEN GetTextAll(mLines, mTabSize)
                                 ELSE runText
             ELSE /\ runLen' = 0
                  /\ runText' = <<>>
          /\ IF halted
             THEN UNCHANGED <<mLines, mState, mInteractiveStart, mInteractiveEnd,
                              mUndoBuffer, mUndoIndex, mReadOnly, mOverwrite, mTabSize,
                              mColorizerEnabled, mColorRangeMin, mColorRangeMax,
                              mCheckComments, mLanguageDefinition, mErrorMarkers,
                              mBreakpoints, clipboard, assertFailed>>
             ELSE /\ mLines' = r.mLines
                  /\ mState' = r.mState
                  /\ mInteractiveStart' = r.mInteractiveStart
                  /\ mInteractiveEnd' = r.mInteractiveEnd
                  /\ mUndoBuffer' = r.mUndoBuffer
                  /\ mUndoIndex' = r.mUndoIndex
                  /\ mReadOnly' = r.mReadOnly
                  /\ mOverwrite' = r.mOverwrite
                  /\ mTabSize' = r.mTabSize
                  /\ mColorizerEnabled' = r.mColorizerEnabled
                  /\ mColorRangeMin' = r.mColorRangeMin
                  /\ mColorRangeMax' = r.mColorRangeMax
                  /\ mCheckComments' = r.mCheckComments
                  /\ mLanguageDefinition' = r.mLanguageDefinition
                  /\ mErrorMarkers' = r.mErrorMarkers
                  /\ mBreakpoints' = r.mBreakpoints
                  /\ clipboard' = r.clipboard
                  /\ assertFailed' = r.assertFailed

\* The state the constructor leaves, but for the document and the tab size:
\* everything at (0, 0), the Lua definition, and Colorize() called on the
\* still empty line vector.
ConstructedAround ==
    /\ mState = EditorState(Coordinates(0, 0), Coordinates(0, 0), Coordinates(0, 0))
    /\ mInteractiveStart = Coordinates(0, 0)
    /\ mInteractiveEnd = Coordinates(0, 0)
    /\ mUndoBuffer = <<>>
    /\ mUndoIndex = 0
    /\ mReadOnly = FALSE
    /\ mOverwrite = FALSE
    /\ mColorizerEnabled = TRUE
    /\ mColorRangeMin = 0
    /\ mColorRangeMax = 0
    /\ mCheckComments = TRUE
    /\ mLanguageDefinition = "Lua"
    /\ mErrorMarkers = <<>>
    /\ mBreakpoints = {}
    /\ clipboard = <<>>
    /\ fault = FALSE
    /\ assertFailed = FALSE
    /\ plugin = ExamplePlugin
    /\ lastOp = "TextEditor"
    /\ steps = 0
    /\ undoBefore = [mUndoIndex |-> 0, size |-> 0]
    /\ runLen = 0
    /\ runText = <<>>
    /\ aValue = Coordinates(0, 0)
    /\ sanitized = Coordinates(0, 0)
    /\ given = <<>>
    /\ returned = <<>>

\* The state the constructor leaves: one empty line, tab size 4.
Init ==
    /\ mLines = <<(<<>>)>>
    /\ mTabSize = 4
    /\ ConstructedAround

\* ------------------------------------------------------------------ inputs

\* Code points typed: 'a', tab, newline, and a low surrogate (which
\* ImTextCharToUtf8 refuses).
TypedChars == {97, TabChar, NewLine, 56320}

\* Texts loaded with SetText or found on the clipboard.
LoadedTexts ==
    {<<>>, <<97>>, <<TabChar, 97>>, <<97, NewLine, 97>>,
     <<SlashChar, SlashChar, 97>>}

ClipboardTexts == {<<97>>, <<TabChar>>, <<97, NewLine>>}

LoadedLineLists == {<<>>, <<(<<97>>), (<<>>)>>}

\* Coordinates handed to SetSelection, SetSelectionStart/End, SetCursorPosition.
GivenCoordinates == {Coordinates(l, c) : l \in 0 .. 1, c \in 0 .. 1}

TabSizes == {2, 4}

\* ----------------------------------------------------------------- actions

DoSetText ==
    /\ ~fault
    /\ \E t \in LoadedTexts : Becomes(SetText(Editor, t), "SetText")

DoSetTextLines ==
    /\ ~fault
    /\ \E ls \in LoadedLineLists : Becomes(SetTextLines(Editor, ls), "SetTextLines")

\* Typing reaches EnterCharacter only on a writable buffer.
DoEnterCharacter ==
    /\ ~fault
    /\ ~mReadOnly
    /\ \E c \in TypedChars, shift \in BOOLEAN :
          /\ (shift => c = TabChar)
          /\ Becomes(EnterCharacter(Editor, c, shift), "EnterCharacter")

DoDelete ==
    /\ ~fault
    /\ ~mReadOnly
    /\ Becomes(Delete(Editor), "Delete")

DoBackspace ==
    /\ ~fault
    /\ ~mReadOnly
    /\ Becomes(Backspace(Editor), "Backspace")

DoCopy ==
    /\ ~fault
    /\ Becomes(Copy(Editor), "Copy")

DoCut ==
    /\ ~fault
    /\ Becomes(Cut(Editor), "Cut")

\* Another program puts a text on the clipboard.
DoSetClipboard ==
    /\ ~fault
    /\ \E t \in ClipboardTexts :
           Becomes([Editor EXCEPT !.clipboard = t], "SetClipboard")

DoPaste ==
    /\ ~fault
    /\ Becomes(Paste(Editor), "Paste")

DoInsertText ==
    /\ ~fault
    /\ ~mReadOnly
    /\ \E t \in ClipboardTexts : Becomes(InsertText(Editor, t), "InsertText")

DoToggleComment ==
    /\ ~fault
    /\ \E shift \in BOOLEAN : Becomes(ToggleComment(Editor, shift), "ToggleComment")

DoUndo ==
    /\ ~fault
    /\ \E k \in 1 .. 2 : Becomes(Undo(Editor, k), "Undo")

DoRedo ==
    /\ ~fault
    /\ \E k \in 1 .. 2 : Becomes(Redo(Editor, k), "Redo")

DoMoveUp ==
    /\ ~fault
    /\ \E sel \in BOOLEAN : Becomes(MoveUp(Editor, 1, sel), "MoveUp")

DoMoveDown ==
    /\ ~fault
    /\ \E sel \in BOOLEAN : Becomes(MoveDown(Editor, 1, sel), "MoveDown")

DoMoveLeft ==
    /\ ~fault
    /\ \E sel \in BOOLEAN : Becomes(MoveLeft(Editor, sel), "MoveLeft")

DoMoveRight ==
    /\ ~fault
    /\ \E sel \in BOOLEAN : Becomes(MoveRight(Editor, sel), "MoveRight")

DoMoveTop ==
    /\ ~fault
    /\ \E sel \in BOOLEAN : Becomes(MoveTop(Editor, sel), "MoveTop")

DoMoveBottom ==
    /\ ~fault
    /\ \E sel \in BOOLEAN : Becomes(MoveBottom(Editor, sel), "MoveBottom")

DoMoveHome ==
    /\ ~fault
    /\ \E sel \in BOOLEAN : Becomes(MoveHome(Editor, sel), "MoveHome")

DoMoveEnd ==
    /\ ~fault
    /\ \E sel \in BOOLEAN : Becomes(MoveEnd(Editor, sel), "MoveEnd")

DoSelectAll ==
    /\ ~fault
    /\ Becomes(SelectAll(Editor), "SelectAll")

DoSetSelection ==
    /\ ~fault
    /\ \E a \in GivenCoordinates, b \in GivenCoordinates :
           Becomes(SetSelection(Editor, a, b), "SetSelection")

DoSetSelectionStart ==
    /\ ~fault
    /\ \E a \in GivenCoordinates : Becomes(SetSelectionStart(Editor, a), "SetSelectionStart")

DoSetSelectionEnd ==
    /\ ~fault
    /\ \E a \in GivenCoordinates : Becomes(SetSelectionEnd(Editor, a), "SetSelectionEnd")

DoSetCursorPosition ==
    /\ ~fault
    /\ \E a \in GivenCoordinates : Becomes(SetCursorPosition(Editor, a), "SetCursorPosition")

DoSetReadOnly ==
    /\ ~fault
    /\ \E b \in BOOLEAN : Becomes([Editor EXCEPT !.mReadOnly = b], "SetReadOnly")

\* The Insert key: mOverwrite ^= true.
DoToggleOverwrite ==
    /\ ~fault
    /\ Becomes([Editor EXCEPT !.mOverwrite = ~mOverwrite], "ToggleOverwrite")

DoSetTabSize ==
    /\ ~fault
    /\ \E n \in TabSizes :
           Becomes([Editor EXCEPT !.mTabSize = Max2(0, Min2(32, n))], "SetTabSize")

DoSetLanguageDefinition ==
    /\ ~fault
    /\ \E lang \in {"Lua", "CPlusPlus"} :
           Becomes(Colorize([Editor EXCEPT !.mLanguageDefinition = lang], 0, -1),
                   "SetLanguageDefinition")

\* The colorizing pass of one Render.
DoColorizeInternal ==
    /\ ~fault
    /\ Becomes(ColorizeInternal(Editor), "ColorizeInternal")

Next ==
    \/ DoSetText
    \/ DoSetTextLines
    \/ DoEnterCharacter
    \/ DoDelete
    \/ DoBackspace
    \/ DoCopy
    \/ DoCut
    \/ DoSetClipboard
    \/ DoPaste
    \/ DoInsertText
    \/ DoToggleComment
    \/ DoUndo
    \/ DoRedo
    \/ DoMoveUp
    \/ DoMoveDown
    \/ DoMoveLeft
    \/ DoMoveRight
    \/ DoMoveTop
    \/ DoMoveBottom
    \/ DoMoveHome
    \/ DoMoveEnd
    \/ DoSelectAll
    \/ DoSetSelection
    \/ DoSetSelectionStart
    \/ DoSetSelectionEnd
    \/ DoSetCursorPosition
    \/ DoSetReadOnly
    \/ DoToggleOverwrite
    \/ DoSetTabSize
    \/ DoSetLanguageDefinition
    \/ DoColorizeInternal

Spec == Init /\ [][Next]_vars

\* -------------------------------------------------------------- properties

\* The document of one empty line.
EmptyDocument == <<(<<>>)>>

\* The operations that can change the text through the keyboard or the API.
TextEdits == RecordingEdits \cup {"InsertText", "ToggleComment"}

\* C1: the document has at least one line in every reachable state, and an
\* emptied document is exactly one empty line: loading the empty text, loading
\* an empty list of lines, or deleting a selection of everything leaves
\* <<(<<>>)>>, never a document of no lines.
AtLeastOneLine ==
    /\ Len(mLines) >= 1
    /\ ~fault =>
         /\ SetText(Editor, <<>>).mLines = EmptyDocument
         /\ SetTextLines(Editor, <<>>).mLines = EmptyDocument
    /\ (~fault /\ ~mReadOnly) =>
         LET r == Delete(SelectAll(Editor))
         IN r.fault \/ r.mLines = EmptyDocument

\* C1 witness: an edit has removed the whole of a document of several lines.
EmptiedByEdit ==
    /\ lastOp \in {"Delete", "Backspace", "Cut"}
    /\ ~fault
    /\ mLines = EmptyDocument
    /\ mUndoIndex > 0
    /\ \E i \in 1 .. Len(mUndoBuffer[mUndoIndex].mRemoved) :
           mUndoBuffer[mUndoIndex].mRemoved[i] = NewLine

\* The last step was one of the recording edits and pushed a record.
RecordPushed == lastOp' \in RecordingEdits /\ ~fault' /\ mUndoIndex' # mUndoIndex

\* C2: after any single edit that pushes an undo record (character entry,
\* Delete, Backspace, Cut, Paste, tab indent/outdent), one Undo gives back
\* exactly the text and the EditorState of before the edit.
UndoRestoresEdit ==
    [][RecordPushed =>
         LET r == Undo(Editor', 1)
         IN /\ ~r.fault
            /\ GetTextAll(r.mLines, r.mTabSize) = GetTextAll(mLines, mTabSize)
            /\ r.mState = mState]_vars

\* C3: after N edits in a row, N Undo calls give back the text of before the
\* first edit, and N Redo calls after them give back the text of after the
\* last edit (a newline entered with auto-indentation included).
UndoRedoRoundTrip ==
    (runLen > 0 /\ ~fault) =>
        LET u == Undo(Editor, runLen)
            r == Redo(u, runLen)
        IN /\ ~u.fault
           /\ GetTextAll(u.mLines, u.mTabSize) = runText
           /\ ~r.fault
           /\ GetTextAll(r.mLines, r.mTabSize) = GetTextAll(mLines, mTabSize)

\* The last step added a record to the history (AddUndo ran).
AnyRecordPushed == lastOp' \in TextEdits /\ ~fault' /\ mUndoIndex' # mUndoIndex

\* C4: a new record replaces every record at or after the undo index: right
\* after an edit that pushes a record the history is the records before the
\* old index followed by the new one, the index is the history length and
\* CanRedo() is false.
PushDiscardsRedoTail ==
    [][AnyRecordPushed =>
         /\ mUndoIndex' = mUndoIndex + 1
         /\ mUndoIndex' = Len(mUndoBuffer')
         /\ SubSeq(mUndoBuffer', 1, mUndoIndex) = SubSeq(mUndoBuffer, 1, mUndoIndex)
         /\ ~CanRedo(Editor')]_vars

\* C4 witness: a record was pushed while records were waiting to be redone.
PushedAfterUndo ==
    /\ lastOp \in RecordingEdits
    /\ ~fault
    /\ undoBefore.mUndoIndex < undoBefore.size
    /\ mUndoIndex = undoBefore.mUndoIndex + 1

LoadClearsHistory ==
    (lastOp \in {"SetText", "SetTextLines"} /\ ~fault) =>
        /\ mUndoBuffer = <<>>
        /\ mUndoIndex = 0
        /\ ~CanUndo(Editor)
        /\ ~CanRedo(Editor)

\* C6 witness: a text was loaded over a history left by an edit and an Undo.
LoadedOverHistory ==
    /\ lastOp \in {"SetText", "SetTextLines"}
    /\ ~fault
    /\ undoBefore.size > 0
    /\ undoBefore.mUndoIndex < undoBefore.size

EveryEditPushesOneRecord ==
    [][(/\ lastOp' \in TextEdits
        /\ ~fault'
        /\ GetTextAll(mLines', mTabSize') # GetTextAll(mLines, mTabSize))
       => /\ mUndoIndex' = mUndoIndex + 1
          /\ Len(mUndoBuffer') = Len(mUndoBuffer) + 1]_vars

\* The operations HandleKeyboardInputs dispatches that may change the text.
KeyboardEdits == RecordingEdits \cup {"Undo", "Redo", "ToggleComment"}

\* C9: on a read-only buffer nothing the keyboard dispatches changes the text
\* or the history; Cut does what Copy does and Paste does nothing.
ReadOnlyKeyboardChangesNothing ==
    [][(mReadOnly /\ ~fault' /\ lastOp' \in KeyboardEdits)
       => /\ mLines' = mLines
          /\ mUndoBuffer' = mUndoBuffer
          /\ mUndoIndex' = mUndoIndex
          /\ lastOp' = "Cut" => Editor' = Copy(Editor)
          /\ lastOp' = "Paste" => Editor' = Editor]_vars

\* ------------------------------------------- SanitizeCoordinates on its own

\* Largest line and column handed to SanitizeCoordinates; the smallest is -1.
MaxGivenLine == 3
MaxGivenColumn == 9
\* Sizes of the documents it is applied to.
MaxSanitizeLines == 2
MaxSanitizeLineLen == 2

\* Lines of 'a' and tab of at most n bytes.
RECURSIVE LinesUpTo(_)
LinesUpTo(n) ==
    IF n = 0 THEN {<<>>}
    ELSE LET shorter == LinesUpTo(n - 1)
         IN shorter \cup {Append(l, c) : l \in shorter, c \in {97, TabChar}}

\* Documents of at least one line.
RECURSIVE DocumentsUpTo(_)
DocumentsUpTo(n) ==
    IF n = 1 THEN {<<l>> : l \in LinesUpTo(MaxSanitizeLineLen)}
    ELSE LET fewer == DocumentsUpTo(n - 1)
         IN fewer \cup {Append(d, l) : d \in fewer, l \in LinesUpTo(MaxSanitizeLineLen)}

InitSanitize ==
    /\ mLines \in DocumentsUpTo(MaxSanitizeLines)
    /\ mTabSize \in {1, 2, 4}
    /\ ConstructedAround

DoSanitizeCoordinates ==
    /\ steps = 0
    /\ steps' = 1
    /\ \E l \in -1 .. MaxGivenLine, c \in -1 .. MaxGivenColumn :
          /\ aValue' = Coordinates(l, c)
          /\ sanitized' = SanitizeCoordinates(mLines, mTabSize, Coordinates(l, c))
    /\ lastOp' = "SanitizeCoordinates"
    /\ UNCHANGED <<mLines, mState, mInteractiveStart, mInteractiveEnd, mUndoBuffer,
                   mUndoIndex, mReadOnly, mOverwrite, mTabSize, mColorizerEnabled,
                   mColorRangeMin, mColorRangeMax, mCheckComments,
                   mLanguageDefinition, mErrorMarkers, mBreakpoints, clipboard,
                   fault, assertFailed, undoBefore, runLen, runText,
                   given, returned, plugin>>

NextSanitize == DoSanitizeCoordinates

SpecSanitize == InitSanitize /\ [][NextSanitize]_vars

\* The coordinate lies inside the document.
InsideBuffer(lines, ts, c) ==
    /\ 0 <= c.mLine
    /\ c.mLine <= Len(lines) - 1
    /\ 0 <= c.mColumn
    /\ c.mColumn <= GetLineMaxColumn(lines, ts, c.mLine)

\* The end of the last line.
EndOfDocument(lines, ts) ==
    Coordinates(Len(lines) - 1, GetLineMaxColumn(lines, ts, Len(lines) - 1))

SanitizedInsideBufferFromNonNegative ==
    (lastOp = "SanitizeCoordinates" /\ aValue.mLine >= 0 /\ aValue.mColumn >= 0) =>
        /\ InsideBuffer(mLines, mTabSize, sanitized)
        /\ aValue.mLine >= Len(mLines) => sanitized = EndOfDocument(mLines, mTabSize)

\* A line beyond the last one, which ends with a tab and a letter, was given
\* and the end of that last line came back.
LineBeyondEndClamped ==
    /\ lastOp = "SanitizeCoordinates"
    /\ aValue.mLine > Len(mLines)
    /\ aValue.mColumn = 0
    /\ Len(mLines) = 2
    /\ mLines[2] = <<TabChar, 97>>
    /\ sanitized = Coordinates(1, mTabSize + 1)

\* C11: SanitizeCoordinates is idempotent: applied to its own result it
\* gives that result again, for every coordinate and document.
SanitizeIdempotent ==
    lastOp = "SanitizeCoordinates" =>
        SanitizeCoordinates(mLines, mTabSize, sanitized) = sanitized

\* A coordinate that SanitizeCoordinates had to change, in line and column.
SanitizeChangedCoordinate ==
    /\ lastOp = "SanitizeCoordinates"
    /\ aValue.mLine > Len(mLines) - 1
    /\ aValue.mColumn > GetLineMaxColumn(mLines, mTabSize, Len(mLines) - 1)
    /\ sanitized # aValue
    /\ sanitized = EndOfDocument(mLines, mTabSize)

\* ------------------------------------ the column arithmetic on its own

\* Longest line the column functions are applied to.
MaxColumnLineLen == 3

\* Bytes of those lines: 'a', tab, and the two bytes of U+00E9 (a leading
\* byte of a two-byte sequence and a continuation byte).
ColumnChars == {97, TabChar, 195, 169}

RECURSIVE LinesOver(_, _)
LinesOver(chars, n) ==
    IF n = 0 THEN {<<>>}
    ELSE LET shorter == LinesOver(chars, n - 1)
         IN shorter \cup {Append(l, c) : l \in shorter, c \in chars}

InitColumns ==
    /\ mLines \in {<<l>> : l \in LinesOver(ColumnChars, MaxColumnLineLen)}
    /\ mTabSize \in 1 .. 4
    /\ ConstructedAround

\* The indices at which the walk over a line finds the first byte of a
\* character, from index i on.
RECURSIVE CharStarts(_, _)
CharStarts(line, i) ==
    IF i >= Len(line) THEN {}
    ELSE {i} \cup CharStarts(line, i + UTF8CharLength(line[i + 1]))

\* The line has a tab character at index i.
TabAt(line, i) == i \in CharStarts(line, 0) /\ line[i + 1] = TabChar

\* The walk over line l up to index upTo computes (col / mTabSize) at a tab
\* with mTabSize = 0: an integer division by zero, which stops the program.
DividesByZero(lines, ts, l, upTo) ==
    /\ ts = 0
    /\ ~LineOutOfRange(lines, l)
    /\ \E i \in 0 .. upTo - 1 : TabAt(LineAt(lines, l), i)

\* A call of a const member function, the one call of its run: it changes
\* nothing and returns, unless it stops the program with an access outside
\* the line vector or a division by zero.
Returns(op, args, result, halted) ==
    /\ steps = 0
    /\ steps' = 1
    /\ lastOp' = op
    /\ given' = args
    /\ returned' = IF halted THEN <<>> ELSE result
    /\ fault' = halted
    /\ UNCHANGED <<mLines, mState, mInteractiveStart, mInteractiveEnd, mUndoBuffer,
                   mUndoIndex, mReadOnly, mOverwrite, mTabSize, mColorizerEnabled,
                   mColorRangeMin, mColorRangeMax, mCheckComments,
                   mLanguageDefinition, mErrorMarkers, mBreakpoints, clipboard,
                   assertFailed, undoBefore, runLen, runText, aValue, sanitized, plugin>>

DoGetCharacterIndex ==
    /\ ~fault
    /\ \E l \in 0 .. 1, c \in 0 .. MaxGivenColumn :
          Returns("GetCharacterIndex", [aCoordinates |-> Coordinates(l, c)],
                  GetCharacterIndex(mLines, mTabSize, Coordinates(l, c)),
                  DividesByZero(mLines, mTabSize, l,
                                GetCharacterIndex(mLines, 1, Coordinates(l, c))))

DoGetCharacterColumn ==
    /\ ~fault
    /\ \E l \in 0 .. 1, i \in 0 .. MaxColumnLineLen + 1 :
          Returns("GetCharacterColumn", [aLine |-> l, aIndex |-> i],
                  GetCharacterColumn(mLines, mTabSize, l, i),
                  DividesByZero(mLines, mTabSize, l, i))

DoGetLineMaxColumn ==
    /\ ~fault
    /\ \E l \in 0 .. 1 :
          Returns("GetLineMaxColumn", [aLine |-> l],
                  GetLineMaxColumn(mLines, mTabSize, l),
                  DividesByZero(mLines, mTabSize, l, MaxColumnLineLen + 1))

\* UTF8CharLength(c) of any byte.
DoUTF8CharLength ==
    /\ ~fault
    /\ \E c \in 0 .. 255 :
          Returns("UTF8CharLength", [c |-> c], UTF8CharLength(c), FALSE)

NextColumns ==
    \/ DoGetCharacterIndex
    \/ DoGetCharacterColumn
    \/ DoGetLineMaxColumn
    \/ DoUTF8CharLength

SpecColumns == InitColumns /\ [][NextColumns]_vars

\* C12: for every coordinate inside the buffer, GetCharacterColumn of the
\* line and of GetCharacterIndex of the coordinate is the coordinate's
\* column, on lines with tabs and multi-byte characters as on plain ones.
ColumnOfIndexIsColumn ==
    (lastOp = "GetCharacterIndex"
        /\ InsideBuffer(mLines, mTabSize, given.aCoordinates)) =>
        GetCharacterColumn(mLines, mTabSize, given.aCoordinates.mLine, returned)
            = given.aCoordinates.mColumn

\* What does hold of the two functions: on a line without a tab, or with
\* tab size 1, the column comes back, multi-byte characters included.
ColumnOfIndexIsColumnWithoutTab ==
    (lastOp = "GetCharacterIndex"
        /\ InsideBuffer(mLines, mTabSize, given.aCoordinates)
        /\ (mTabSize = 1 \/ \A i \in 1 .. Len(mLines[1]) : mLines[1][i] # TabChar)) =>
        GetCharacterColumn(mLines, mTabSize, given.aCoordinates.mLine, returned)
            = given.aCoordinates.mColumn

\* C13: the column of the character after a tab is a multiple of the tab
\* size: GetCharacterColumn at the index after a tab, GetLineMaxColumn of a
\* line that ends with a tab; a line of one tab with tab size 4 has
\* GetLineMaxColumn 4.
ColumnAfterTabIsTabStop ==
    /\ (lastOp = "GetCharacterColumn" /\ given.aLine = 0
           /\ TabAt(mLines[1], given.aIndex - 1)) =>
          returned % mTabSize = 0 /\ returned > 0
    /\ (lastOp = "GetLineMaxColumn" /\ given.aLine = 0
           /\ TabAt(mLines[1], Len(mLines[1]) - 1)) =>
          returned % mTabSize = 0 /\ returned > 0
    /\ (lastOp = "GetLineMaxColumn" /\ given.aLine = 0
           /\ mLines[1] = <<TabChar>> /\ mTabSize = 4) =>
          returned = 4

\* The column after a tab that does not start at a tab stop was asked for.
ColumnAfterTabOffTabStop ==
    /\ lastOp = "GetCharacterColumn"
    /\ given = [aLine |-> 0, aIndex |-> 2]
    /\ mLines[1] = <<97, TabChar, 97>>
    /\ mTabSize = 4
    /\ returned = 4

\* ------------------------------------ the line buffer functions on their own

\* Most lines of the documents the line buffer functions are applied to.
MaxBufferLines == 3

\* Lines of those documents: empty, plain, with a tab, a two-byte character.
BufferLines == {<<>>, <<97>>, <<TabChar, 98>>, <<195, 169>>}

RECURSIVE BufferDocuments(_)
BufferDocuments(n) ==
    IF n = 1 THEN {<<l>> : l \in BufferLines}
    ELSE LET fewer == BufferDocuments(n - 1)
         IN fewer \cup {Append(d, l) : d \in fewer, l \in BufferLines}

\* Coordinates handed to the functions: up to one line beyond the longest
\* document, up to the column after the longest line.
BufferCoordinates == {Coordinates(l, c) : l \in 0 .. MaxBufferLines, c \in 0 .. 3}

InitBuffer ==
    /\ mLines \in BufferDocuments(MaxBufferLines)
    /\ mTabSize \in TabSizes
    /\ ConstructedAround

\* Texts handed to InsertTextAt: plain, with a tab, with newlines, with a
\* carriage return, a two-byte character, and a leading byte whose
\* continuation byte is missing before a newline.
InsertedTexts ==
    {<<>>, <<97>>, <<TabChar, 97>>, <<97, NewLine, 98>>,
     <<97, CarriageReturn, NewLine>>, <<195, 169>>, <<195, NewLine>>}

\* A call of a function that changes the line buffer, the one call of its
\* run: the editor becomes r, unless the call stops the program.
Applies(r, op, args, result) ==
    /\ steps = 0
    /\ steps' = 1
    /\ lastOp' = op
    /\ given' = args
    /\ returned' = IF r.fault THEN <<>> ELSE result
    /\ fault' = r.fault
    /\ IF r.fault
       THEN UNCHANGED <<mLines, mErrorMarkers, mBreakpoints, assertFailed>>
       ELSE /\ mLines' = r.mLines
            /\ mErrorMarkers' = r.mErrorMarkers
            /\ mBreakpoints' = r.mBreakpoints
            /\ assertFailed' = r.assertFailed
    /\ UNCHANGED <<mState, mInteractiveStart, mInteractiveEnd, mUndoBuffer,
                   mUndoIndex, mReadOnly, mOverwrite, mTabSize, mColorizerEnabled,
                   mColorRangeMin, mColorRangeMax, mCheckComments,
                   mLanguageDefinition, clipboard, undoBefore, runLen, runText,
                   aValue, sanitized, plugin>>

DoGetText ==
    /\ ~fault
    /\ \E aStart \in BufferCoordinates, aEnd \in BufferCoordinates :
          Returns("GetText", [aStart |-> aStart, aEnd |-> aEnd],
                  GetText(mLines, mTabSize, aStart, aEnd),
                  GetTextFault(mLines, aStart, aEnd))

DoGetTextAll ==
    /\ ~fault
    /\ Returns("GetTextAll", <<>>, GetTextAll(mLines, mTabSize), FALSE)

DoInsertTextAt ==
    /\ ~fault
    /\ \E aWhere \in BufferCoordinates, text \in InsertedTexts :
          LET r == InsertTextAt(Editor, aWhere, text)
          IN Applies(r.e, "InsertTextAt",
                     [aWhere |-> aWhere, aValue |-> text, lines |-> mLines],
                     [totalLines |-> r.totalLines, aWhere |-> r.where])

DoDeleteRange ==
    /\ ~fault
    /\ \E aStart \in BufferCoordinates, aEnd \in BufferCoordinates :
          Applies(DeleteRange(Editor, aStart, aEnd), "DeleteRange",
                  [aStart |-> aStart, aEnd |-> aEnd, lines |-> mLines], <<>>)

NextBuffer ==
    \/ DoGetText
    \/ DoGetTextAll
    \/ DoInsertTextAt
    \/ DoDeleteRange

SpecBuffer == InitBuffer /\ [][NextBuffer]_vars

\* The number of newline characters in a text.
RECURSIVE NewLines(_)
NewLines(text) ==
    IF text = <<>> THEN 0
    ELSE (IF Head(text) = NewLine THEN 1 ELSE 0) + NewLines(Tail(text))

\* The lines of a document joined by one newline between two lines.
RECURSIVE Joined(_)
Joined(lines) ==
    IF Len(lines) = 0 THEN <<>>
    ELSE IF Len(lines) = 1 THEN lines[1]
    ELSE lines[1] \o <<NewLine>> \o Joined(Tail(lines))

\* The coordinate, or the end of the last line when it is beyond the buffer.
ClampedToEnd(lines, ts, c) ==
    IF c.mLine >= Len(lines) THEN EndOfDocument(lines, ts)
    ELSE Coordinates(c.mLine, Min2(c.mColumn, GetLineMaxColumn(lines, ts, c.mLine)))

\* C14: GetText(start, end) gives the characters between start and end with
\* one newline for every line boundary crossed: nothing for an empty range,
\* the text up to the end of the last line for an end beyond the buffer;
\* GetText() gives the lines joined by newlines, n - 1 newlines for n lines.
GetTextOneNewlinePerBoundary ==
    /\ ~fault
    /\ (lastOp = "GetText" /\ given.aStart = given.aEnd) => returned = <<>>
    /\ (lastOp = "GetText" /\ CoordLessEq(given.aStart, given.aEnd)
           /\ given.aStart.mLine < Len(mLines)) =>
          LET end == ClampedToEnd(mLines, mTabSize, given.aEnd)
          IN /\ NewLines(returned) = end.mLine - given.aStart.mLine
             /\ returned = GetText(mLines, mTabSize, given.aStart, end)
    /\ lastOp = "GetTextAll" =>
          /\ NewLines(returned) = Len(mLines) - 1
          /\ returned = Joined(mLines)

\* What does hold of GetText(start, end): with both coordinates on lines of
\* the buffer and start <= end it gives one newline for every line boundary
\* between them, and nothing for an empty range.
GetTextOneNewlinePerBoundaryInside ==
    /\ (lastOp = "GetText" /\ given.aStart = given.aEnd) => returned = <<>>
    /\ (lastOp = "GetText" /\ CoordLessEq(given.aStart, given.aEnd)
           /\ given.aEnd.mLine < Len(mLines)) =>
          /\ ~fault
          /\ NewLines(returned) = given.aEnd.mLine - given.aStart.mLine

\* What GetText() gives: every line followed by a newline, the last one too.
GetTextAllEndsEveryLine ==
    lastOp = "GetTextAll" =>
        /\ NewLines(returned) = Len(mLines)
        /\ returned = Joined(mLines) \o <<NewLine>>

\* A text without its carriage returns.
RECURSIVE WithoutCR(_)
WithoutCR(text) ==
    IF text = <<>> THEN <<>>
    ELSE IF Head(text) = CarriageReturn THEN WithoutCR(Tail(text))
    ELSE <<Head(text)>> \o WithoutCR(Tail(text))

\* The text of a document before a coordinate, and the text from it on.
TextBefore(lines, ts, c) == GetText(lines, ts, Coordinates(0, 0), c)
TextFrom(lines, ts, c) ==
    SubSeq(Joined(lines), Len(TextBefore(lines, ts, c)) + 1, Len(Joined(lines)))

\* C15: InsertTextAt returns the number of newlines of the text, the
\* document grows by that many lines, no carriage return is stored, the
\* text before and after the coordinate stays around the inserted text, and
\* "a\nb" at (0, 0) of the empty document gives the lines "a" and "b".
InsertTextAtSplitsOnNewlines ==
    (lastOp = "InsertTextAt" /\ InsideBuffer(given.lines, mTabSize, given.aWhere)) =>
        /\ ~fault
        /\ returned.totalLines = NewLines(given.aValue)
        /\ Len(mLines) = Len(given.lines) + NewLines(given.aValue)
        /\ \A l \in 1 .. Len(mLines) : \A i \in 1 .. Len(mLines[l]) :
              mLines[l][i] # CarriageReturn
        /\ Joined(mLines) = TextBefore(given.lines, mTabSize, given.aWhere)
                            \o WithoutCR(given.aValue)
                            \o TextFrom(given.lines, mTabSize, given.aWhere)
        /\ (given.lines = <<(<<>>)>> /\ given.aValue = <<97, NewLine, 98>>) =>
              mLines = <<(<<97>>), (<<98>>)>>

\* Every newline and carriage return of the text is a character of its own,
\* not a byte in the place of a continuation byte.
LineBreaksAreCharacters(text) ==
    \A i \in 0 .. Len(text) - 1 :
        text[i + 1] \in {NewLine, CarriageReturn} => i \in CharStarts(text, 0)

\* What does hold of InsertTextAt: the same, and every line free of newline
\* bytes, for a text whose line breaks are not swallowed by a leading byte.
InsertTextAtSplitsOnNewlinesOfCharacters ==
    (lastOp = "InsertTextAt" /\ InsideBuffer(given.lines, mTabSize, given.aWhere)
        /\ LineBreaksAreCharacters(given.aValue)) =>
        /\ ~fault
        /\ returned.totalLines = NewLines(given.aValue)
        /\ Len(mLines) = Len(given.lines) + NewLines(given.aValue)
        /\ \A l \in 1 .. Len(mLines) : \A i \in 1 .. Len(mLines[l]) :
              mLines[l][i] \notin {CarriageReturn, NewLine}
        /\ Joined(mLines) = TextBefore(given.lines, mTabSize, given.aWhere)
                            \o WithoutCR(given.aValue)
                            \o TextFrom(given.lines, mTabSize, given.aWhere)

\* C16: after InsertTextAt the in/out coordinate is the position after the
\* inserted text: GetText from the given coordinate to the advanced one is
\* the text without its carriage returns.
InsertTextAtAdvancesPastText ==
    (lastOp = "InsertTextAt" /\ InsideBuffer(given.lines, mTabSize, given.aWhere)) =>
        /\ ~fault
        /\ GetText(mLines, mTabSize, given.aWhere, returned.aWhere)
              = WithoutCR(given.aValue)

\* What does hold of the advanced coordinate: it is right for a text of
\* characters without a tab, inserted at a coordinate that is not inside a tab.
InsertTextAtAdvancesPastTextWithoutTab ==
    (lastOp = "InsertTextAt" /\ InsideBuffer(given.lines, mTabSize, given.aWhere)
        /\ LineBreaksAreCharacters(given.aValue)
        /\ \A i \in 1 .. Len(given.aValue) : given.aValue[i] # TabChar
        /\ GetCharacterColumn(given.lines, mTabSize, given.aWhere.mLine,
               GetCharacterIndex(given.lines, mTabSize, given.aWhere))
              = given.aWhere.mColumn) =>
        /\ ~fault
        /\ GetText(mLines, mTabSize, given.aWhere, returned.aWhere)
              = WithoutCR(given.aValue)

MaxMarkedLines == 3

\* Documents of n lines "a", with breakpoints and error markers at keys
\* 0 .. n; the message of an error marker is the key it was set at.
InitLines ==
    /\ \E n \in 1 .. MaxMarkedLines :
          /\ mLines = [i \in 1 .. n |-> <<97>>]
          /\ mBreakpoints \in SUBSET (0 .. n)
          /\ mErrorMarkers \in {[k \in keys |-> k] : keys \in SUBSET (0 .. n)}
    /\ mTabSize = 4
    /\ mState = EditorState(Coordinates(0, 0), Coordinates(0, 0), Coordinates(0, 0))
    /\ mInteractiveStart = Coordinates(0, 0)
    /\ mInteractiveEnd = Coordinates(0, 0)
    /\ mUndoBuffer = <<>>
    /\ mUndoIndex = 0
    /\ mReadOnly = FALSE
    /\ mOverwrite = FALSE
    /\ mColorizerEnabled = TRUE
    /\ mColorRangeMin = 0
    /\ mColorRangeMax = 0
    /\ mCheckComments = TRUE
    /\ mLanguageDefinition = "Lua"
    /\ clipboard = <<>>
    /\ fault = FALSE
    /\ assertFailed = FALSE
    /\ plugin = ExamplePlugin
    /\ lastOp = "TextEditor"
    /\ steps = 0
    /\ undoBefore = [mUndoIndex |-> 0, size |-> 0]
    /\ runLen = 0
    /\ runText = <<>>
    /\ aValue = Coordinates(0, 0)
    /\ sanitized = Coordinates(0, 0)
    /\ given = <<>>
    /\ returned = <<>>

DoInsertLine ==
    /\ ~fault
    /\ \E aIndex \in 0 .. Len(mLines) :
          Applies(InsertLine(Editor, aIndex), "InsertLine", [aIndex |-> aIndex], <<>>)

DoRemoveLine ==
    /\ ~fault
    /\ Len(mLines) > 1
    /\ \E aIndex \in 0 .. Len(mLines) - 1 :
          Applies(RemoveLine(Editor, aIndex), "RemoveLine", [aIndex |-> aIndex], <<>>)

DoRemoveLines ==
    /\ ~fault
    /\ \E aStart \in 0 .. Len(mLines), aEnd \in 0 .. Len(mLines) :
          /\ aStart <= aEnd
          /\ Len(mLines) > aEnd - aStart
          /\ Applies(RemoveLines(Editor, aStart, aEnd), "RemoveLines",
                     [aStart |-> aStart, aEnd |-> aEnd], <<>>)

NextLines ==
    \/ DoInsertLine
    \/ DoRemoveLine
    \/ DoRemoveLines
    \/ DoSetCursorPosition
    \/ DoBackspace

SpecLines == InitLines /\ [][NextLines]_vars

\* The lines that survive a change of a document of n lines, and the index
\* each of them has afterwards.
LinesAfterInsert(n, aIndex) ==
    [i \in 0 .. n - 1 |-> IF i >= aIndex THEN i + 1 ELSE i]

LinesAfterRemove(n, aStart, aEnd) ==
    [i \in (0 .. n - 1) \ (aStart .. aEnd - 1) |->
        IF i >= aEnd THEN i - (aEnd - aStart) ELSE i]

\* The two side tables follow the lines, with the keys read as line indices
\* plus base: an entry of a surviving line is at that line's new index, and
\* there is no other entry on a line of the document.
Rekeyed(base, bOld, bNew, eOld, eNew, newIndex, newCount) ==
    /\ \A i \in DOMAIN newIndex :
          /\ (i + base \in bOld) <=> (newIndex[i] + base \in bNew)
          /\ (i + base \in DOMAIN eOld) <=> (newIndex[i] + base \in DOMAIN eNew)
          /\ (i + base \in DOMAIN eOld) => eNew[newIndex[i] + base] = eOld[i + base]
    /\ \A j \in (0 .. newCount - 1) \ {newIndex[i] : i \in DOMAIN newIndex} :
          /\ j + base \notin bNew
          /\ j + base \notin DOMAIN eNew

\* C18: after InsertLine, RemoveLine(i), RemoveLine(start, end) and a
\* Backspace that joins two lines, every breakpoint and error marker of a
\* surviving line is at that line's new index, the entries of removed lines
\* are gone and the entries before the change are where they were; with
\* the keys read as line indices from 0 (the line vector) or from 1 (the
\* drawing code).
SideTablesFollowLines ==
    [][(~fault' /\ (\/ lastOp' \in {"InsertLine", "RemoveLine", "RemoveLines"}
                    \/ lastOp' = "Backspace" /\ Len(mLines') = Len(mLines) - 1)) =>
          LET n == Len(mLines)
              l == GetActualCursorCoordinates(Editor).mLine
              newIndex ==
                  CASE lastOp' = "InsertLine" -> LinesAfterInsert(n, given'.aIndex)
                    [] lastOp' = "RemoveLine" ->
                         LinesAfterRemove(n, given'.aIndex, given'.aIndex + 1)
                    [] lastOp' = "RemoveLines" ->
                         LinesAfterRemove(n, given'.aStart, given'.aEnd)
                    [] lastOp' = "Backspace" -> LinesAfterRemove(n, l, l + 1)
          IN \E base \in {0, 1} :
                Rekeyed(base, mBreakpoints, mBreakpoints', mErrorMarkers,
                        mErrorMarkers', newIndex, Len(mLines'))]_vars

\* What does hold of the side tables: InsertLine moves both tables with the
\* lines when the keys are read as line indices from 0.
InsertLineShiftsKeysFromZero ==
    (~fault /\ lastOp = "InsertLine") =>
        /\ \A k \in mBreakpoints : k # given.aIndex
        /\ \A k \in DOMAIN mErrorMarkers :
              /\ k # given.aIndex
              /\ mErrorMarkers[k] = IF k > given.aIndex THEN k - 1 ELSE k

\* --------------------------------------- the line comment toggle on its own

\* Documents of one or two lines: empty, plain, blank, commented, commented
\* after a blank, and the bare prefix.
InitToggle ==
    /\ LET lines == {<<>>, <<97>>, <<SpaceChar>>, <<SlashChar, SlashChar, 97>>,
                     <<SpaceChar, SlashChar, SlashChar, 97>>, <<SlashChar, SlashChar>>}
       IN mLines \in {<<a>> : a \in lines} \cup {<<a, b>> : a \in lines, b \in lines}
    /\ mTabSize = 4
    /\ ConstructedAround

\* Ctrl+/ without Shift.
DoToggleLineComment ==
    /\ ~fault
    /\ Becomes(ToggleComment(Editor, FALSE), "ToggleLineComment")

NextToggle ==
    \/ DoToggleLineComment
    \/ DoSelectAll
    \/ DoMoveDown

SpecToggle == InitToggle /\ [][NextToggle]_vars

\* The lines a toggle works on: the lines of the selection when it spans
\* lines, the line of the cursor otherwise; those of them inside the document.
ToggledSpan(st, n) ==
    LET multi == st.mSelectionStart.mLine # st.mSelectionEnd.mLine
        first == IF multi THEN Min2(st.mSelectionStart.mLine, st.mSelectionEnd.mLine)
                 ELSE st.mCursorPosition.mLine
        last == IF multi THEN Max2(st.mSelectionStart.mLine, st.mSelectionEnd.mLine)
                ELSE st.mCursorPosition.mLine
    IN {l \in first .. last : l < n}

\* The line begins, after its leading whitespace, with "//".
BeginsWithPrefix(line) ==
    LET nw == FirstNonWs(line, 0)
    IN nw + 2 <= Len(line) /\ line[nw + 1] = SlashChar /\ line[nw + 2] = SlashChar

\* The line with "//" put after its leading whitespace, and with it taken away.
WithPrefix(line) == InsertSlice(line, FirstNonWs(line, 0), <<SlashChar, SlashChar>>)
WithoutPrefix(line) == EraseSlice(line, FirstNonWs(line, 0), FirstNonWs(line, 0) + 2)

\* C19: a line comment toggle that comments, followed by a second toggle on
\* the same lines, gives back the text of every line, also when the first
\* line of the span is empty or blank.
LineToggleTwiceRestores ==
    [][(lastOp' = "ToggleLineComment" /\ ~fault'
           /\ Len(Joined(mLines')) > Len(Joined(mLines))) =>
          ToggleComment(Editor', FALSE).mLines = mLines]_vars

\* What does hold of two toggles: the text comes back when the first line of
\* the span is not empty.
LineToggleTwiceRestoresFromNonEmptyFirstLine ==
    [][(lastOp' = "ToggleLineComment" /\ ~fault'
           /\ Len(Joined(mLines')) > Len(Joined(mLines))
           /\ \A l \in ToggledSpan(mState, Len(mLines)) :
                 (\A k \in ToggledSpan(mState, Len(mLines)) : l <= k)
                     => LineAt(mLines, l) # <<>>) =>
          ToggleComment(Editor', FALSE).mLines = mLines]_vars

LineTogglePrefixRuleFromNonEmptyFirstLine ==
    [][(lastOp' = "ToggleLineComment" /\ ~fault'
           /\ \A l \in ToggledSpan(mState, Len(mLines)) :
                 (\A k \in ToggledSpan(mState, Len(mLines)) : l <= k)
                     => LineAt(mLines, l) # <<>>) =>
          LET n == Len(mLines)
              span == ToggledSpan(mState, n)
              nonEmpty == {l \in span : LineAt(mLines, l) # <<>>}
              all == \A l \in nonEmpty : BeginsWithPrefix(LineAt(mLines, l))
          IN /\ Len(mLines') = n
             /\ \A l \in 0 .. n - 1 :
                   LineAt(mLines', l) =
                       IF l \notin nonEmpty THEN LineAt(mLines, l)
                       ELSE IF all THEN WithoutPrefix(LineAt(mLines, l))
                       ELSE WithPrefix(LineAt(mLines, l))]_vars

\* ------------------------------------------------ comment toggles and undo

\* C21: every comment toggle that changes the text is one undo step: Undo
\* right after it gives back the text and the EditorState from before the
\* toggle.
ToggleIsOneUndoStep ==
    [][(lastOp' = "ToggleComment" /\ ~fault' /\ ~mReadOnly /\ mLines' # mLines) =>
          /\ mUndoIndex' = mUndoIndex + 1
          /\ LET undone == Undo(Editor', 1)
             IN /\ ~undone.fault
                /\ undone.mLines = mLines
                /\ undone.mState = mState]_vars

\* What does hold of the toggles and Undo: a block toggle that wraps or
\* unwraps a selection in a document without a tab is undone by one Undo. (The record of
\* such a toggle is the only one that holds removed text.)
BlockToggleOfSelectionIsOneUndoStep ==
    [][(lastOp' = "ToggleComment" /\ ~fault' /\ ~mReadOnly /\ mLines' # mLines
           /\ mUndoIndex' = mUndoIndex + 1
           /\ mUndoBuffer'[mUndoIndex'].mRemoved # <<>>
           /\ \A l \in 1 .. Len(mLines) : \A i \in 1 .. Len(mLines[l]) :
                 mLines[l][i] # TabChar
           /\ mState.mSelectionStart = Sanitized(Editor, mState.mSelectionStart)
           /\ mState.mSelectionEnd = Sanitized(Editor, mState.mSelectionEnd)) =>
          LET undone == Undo(Editor', 1)
          IN /\ ~undone.fault
             /\ undone.mLines = mLines
             /\ undone.mState = mState]_vars

\* --------------------------------------------------- the colorizer on its own

\* Most lines of the documents that are colorized.
MaxColorizedLines == 12

\* A document of 1 .. MaxColorizedLines lines "a" in either language, with a
\* dirty interval inside the document or the sentinel interval, as
\* Colorize and ColorizeInternal leave them.  "returned" collects the lines
\* handed to ColorizeRange.
InitColorize ==
    /\ \E n \in 1 .. MaxColorizedLines :
          /\ mLines = [i \in 1 .. n |-> <<97>>]
          /\ \/ mColorRangeMin = ColorRangeSentinel /\ mColorRangeMax = 0
             \/ mColorRangeMin \in 0 .. n /\ mColorRangeMax \in mColorRangeMin .. n
    /\ mLanguageDefinition \in {"Lua", "CPlusPlus"}
    /\ mCheckComments = TRUE
    /\ mColorizerEnabled = TRUE
    /\ mTabSize = 4
    /\ mState = EditorState(Coordinates(0, 0), Coordinates(0, 0), Coordinates(0, 0))
    /\ mInteractiveStart = Coordinates(0, 0)
    /\ mInteractiveEnd = Coordinates(0, 0)
    /\ mUndoBuffer = <<>>
    /\ mUndoIndex = 0
    /\ mReadOnly = FALSE
    /\ mOverwrite = FALSE
    /\ mErrorMarkers = <<>>
    /\ mBreakpoints = {}
    /\ clipboard = <<>>
    /\ fault = FALSE
    /\ assertFailed = FALSE
    /\ plugin = ExamplePlugin
    /\ lastOp = "TextEditor"
    /\ steps = 0
    /\ undoBefore = [mUndoIndex |-> 0, size |-> 0]
    /\ runLen = 0
    /\ runText = <<>>
    /\ aValue = Coordinates(0, 0)
    /\ sanitized = Coordinates(0, 0)
    /\ given = [mColorRangeMin |-> mColorRangeMin, mColorRangeMax |-> mColorRangeMax]
    /\ returned = {}

\* A step of the colorizer: only the dirty interval and mCheckComments
\* change; "given" keeps the interval before the step and the arguments.
Colorizes(r, op, args, tokenized) ==
    /\ lastOp' = op
    /\ given' = [mColorRangeMin |-> mColorRangeMin,
                 mColorRangeMax |-> mColorRangeMax] @@ args
    /\ returned' = tokenized
    /\ mColorRangeMin' = r.mColorRangeMin
    /\ mColorRangeMax' = r.mColorRangeMax
    /\ mCheckComments' = r.mCheckComments
    /\ UNCHANGED <<mLines, mState, mInteractiveStart, mInteractiveEnd, mUndoBuffer,
                   mUndoIndex, mReadOnly, mOverwrite, mTabSize, mColorizerEnabled,
                   mLanguageDefinition, mErrorMarkers, mBreakpoints, clipboard,
                   fault, assertFailed, steps, undoBefore, runLen, runText,
                   aValue, sanitized, plugin>>

\* Colorize(aFromLine, aLines), as the edits call it.
DoColorize ==
    /\ ~fault
    /\ \E aFromLine \in -1 .. Len(mLines), aLines \in -1 .. 3 :
          Colorizes(Colorize(Editor, aFromLine, aLines), "Colorize",
                    [aFromLine |-> aFromLine, aLines |-> aLines], {})

\* ColorizeInternal(), once per Render: the lines from mColorRangeMin up to
\* the new mColorRangeMin (or to mColorRangeMax when the interval closes) go
\* to ColorizeRange.
DoColorizeTick ==
    /\ ~fault
    /\ LET r == ColorizeInternal(Editor)
           to == IF r.mColorRangeMin = ColorRangeSentinel THEN mColorRangeMax
                 ELSE r.mColorRangeMin
       IN Colorizes(r, "ColorizeInternal", <<>>,
                    IF mColorRangeMin < mColorRangeMax
                    THEN mColorRangeMin .. to - 1 ELSE {})

NextColorize ==
    \/ DoColorize
    \/ DoColorizeTick

SpecColorize == InitColorize /\ [][NextColorize]_vars

\* C22: a colorization step with an open dirty interval tokenizes at most 10
\* lines when the language has a tokenizer function and at most 10000 when
\* it has regular expressions only, and moves mColorRangeMin on by the
\* number of lines tokenized (until the interval closes).
BatchSizeByTokenizer ==
    (lastOp = "ColorizeInternal" /\ given.mColorRangeMin < given.mColorRangeMax) =>
        /\ Cardinality(returned) <=
              (IF HasTokenize(mLanguageDefinition) THEN 10 ELSE 10000)
        /\ mColorRangeMin # ColorRangeSentinel =>
              mColorRangeMin = given.mColorRangeMin + Cardinality(returned)

\* What the step does: the batch sizes the other way round, 10 lines for a
\* language of regular expressions only and 10000 for one with a tokenizer
\* function.
BatchSizeByMissingTokenizer ==
    (lastOp = "ColorizeInternal" /\ given.mColorRangeMin < given.mColorRangeMax) =>
        /\ Cardinality(returned) <=
              (IF HasTokenize(mLanguageDefinition) THEN 10000 ELSE 10)
        /\ mColorRangeMin # ColorRangeSentinel =>
              mColorRangeMin = given.mColorRangeMin + Cardinality(returned)

\* A step took ten of eleven dirty lines of a Lua document.
TickTookTenOfEleven ==
    /\ lastOp = "ColorizeInternal"
    /\ ~HasTokenize(mLanguageDefinition)
    /\ given.mColorRangeMax - given.mColorRangeMin = 11
    /\ Cardinality(returned) = 10
    /\ mColorRangeMin = given.mColorRangeMin + 10
    /\ mColorRangeMax = given.mColorRangeMax

\* ------------------------------------------------- edits and the dirty interval

\* The ways to read the new document as the old one with one stretch of
\* lines replaced: head lines kept in front, tail lines kept behind.
Alignments(old, new) ==
    {ht \in (0 .. Len(new)) \X (0 .. Len(new)) :
        /\ ht[1] + ht[2] <= Len(new)
        /\ ht[1] + ht[2] <= Len(old)
        /\ SubSeq(old, 1, ht[1]) = SubSeq(new, 1, ht[1])
        /\ SubSeq(old, Len(old) - ht[2] + 1, Len(old)) =
              SubSeq(new, Len(new) - ht[2] + 1, Len(new))}

\* The lines changed, created or merged between two documents all lie in
\* [min, max): some reading of the change has every replaced line
\* (0-based) inside the interval.
ChangedLinesWithin(old, new, min, max) ==
    \E ht \in Alignments(old, new) :
        \A l \in ht[1] .. Len(new) - ht[2] - 1 : min <= l /\ l < max

\* The operations that change the text.
Edits ==
    {"EnterCharacter", "Delete", "Backspace", "Cut", "Paste", "InsertText",
     "ToggleComment", "Undo", "Redo"}

\* C23: after every edit, Undo and Redo, every line the operation changed,
\* created or merged lies inside the dirty interval
\* [mColorRangeMin, mColorRangeMax).
ChangedLinesAreDirty ==
    [][(lastOp' \in Edits /\ ~fault') =>
          ChangedLinesWithin(mLines, mLines', mColorRangeMin', mColorRangeMax')]_vars

\* ------------------------------------------------------ Colorize(from, n)

\* C24: Colorize(aFromLine, aLines) never narrows the dirty interval: the
\* interval after the call contains the interval before it (when that was
\* not empty) and the requested lines
\* [max(0, aFromLine), min(line count, aFromLine + aLines)).
ColorizeNeverNarrows ==
    lastOp = "Colorize" =>
        /\ given.mColorRangeMin < given.mColorRangeMax =>
              /\ mColorRangeMin <= given.mColorRangeMin
              /\ given.mColorRangeMax <= mColorRangeMax
        /\ \A l \in Max2(0, given.aFromLine) ..
                    Min2(Len(mLines), given.aFromLine + given.aLines) - 1 :
              mColorRangeMin <= l /\ l < mColorRangeMax

\* Colorize was asked for lines behind a dirty interval that was open, and
\* the interval now spans both.
ColorizeWidenedOpenInterval ==
    /\ lastOp = "Colorize"
    /\ given.mColorRangeMin < given.mColorRangeMax
    /\ given.mColorRangeMax < given.aFromLine
    /\ given.aLines > 0
    /\ given.aFromLine < Len(mLines)
    /\ mColorRangeMin = given.mColorRangeMin
    /\ mColorRangeMax = Min2(Len(mLines), given.aFromLine + given.aLines)

\* ------------------------------------------------- colorization to the end

\* The colorizer left alone with a document: Render calls ColorizeInternal
\* on every frame, so a colorization step that is possible is taken.
SpecColorizeTicks ==
    InitColorize /\ [][DoColorizeTick]_vars /\ WF_vars(DoColorizeTick)

\* C25: with the colorizer enabled and no edits, every colorization step on
\* an open dirty interval moves mColorRangeMin strictly on and hands every
\* line it takes out of the interval to the tokenizer; an open interval is
\* eventually closed and is then the sentinel interval
\* (mColorRangeMin > mColorRangeMax); every dirty line is eventually tokenized.
ColorizationCompletes ==
    /\ [][(lastOp' = "ColorizeInternal" /\ mColorRangeMin < mColorRangeMax) =>
             /\ mColorRangeMin' > mColorRangeMin
             /\ \A l \in mColorRangeMin .. mColorRangeMax - 1 :
                   (mColorRangeMin' <= l /\ l < mColorRangeMax') \/ l \in returned'
             /\ mColorRangeMin' >= mColorRangeMax' =>
                   (mColorRangeMin' = ColorRangeSentinel /\ mColorRangeMax' = 0)]_vars
    /\ (mColorRangeMin < mColorRangeMax) ~> (mColorRangeMin > mColorRangeMax)
    /\ \A l \in 0 .. MaxColorizedLines :
          (mColorRangeMin <= l /\ l < mColorRangeMax) ~>
              (lastOp = "ColorizeInternal" /\ l \in returned)

\* A step on a Lua document took the last two dirty lines, 10 and 11, and
\* closed the interval.
TickClosedInterval ==
    /\ lastOp = "ColorizeInternal"
    /\ ~HasTokenize(mLanguageDefinition)
    /\ given.mColorRangeMin = 10
    /\ given.mColorRangeMax = 12
    /\ returned = {10, 11}
    /\ mColorRangeMin = ColorRangeSentinel
    /\ mColorRangeMax = 0

\* ------------------------------------------------ moves that extend a selection

\* The cursor movements of the claim.
CursorMoves == {"MoveUp", "MoveDown", "MoveLeft", "MoveRight", "MoveHome", "MoveEnd"}

\* What the movement named op makes of e when it extends the selection.
SelectingMove(op, e) ==
    CASE op = "MoveUp" -> MoveUp(e, 1, TRUE)
      [] op = "MoveDown" -> MoveDown(e, 1, TRUE)
      [] op = "MoveLeft" -> MoveLeft(e, TRUE)
      [] op = "MoveRight" -> MoveRight(e, TRUE)
      [] op = "MoveHome" -> MoveHome(e, TRUE)
      [] op = "MoveEnd" -> MoveEnd(e, TRUE)
      [] OTHER -> e

\* C26: when a cursor movement extends the selection and the cursor was at
\* one endpoint of the selection before, the other endpoint is the anchor:
\* the selection afterwards spans from the anchor to the new cursor
\* position, however the selection came about.
MoveKeepsAnchor ==
    [][(/\ lastOp' \in CursorMoves
        /\ ~fault'
        /\ mState' = SelectingMove(lastOp', Editor).mState
        /\ mState'.mCursorPosition # mState.mCursorPosition
        /\ mState.mCursorPosition \in {mState.mSelectionStart, mState.mSelectionEnd}) =>
           LET cur == mState.mCursorPosition
               anchor == IF cur = mState.mSelectionStart THEN mState.mSelectionEnd
                         ELSE mState.mSelectionStart
               a == SanitizeCoordinates(mLines, mTabSize, anchor)
               n == SanitizeCoordinates(mLines, mTabSize, mState'.mCursorPosition)
           IN /\ mState'.mSelectionStart = CoordMin(a, n)
              /\ mState'.mSelectionEnd = (IF CoordLess(a, n) THEN n ELSE a)]_vars

\* What holds: the anchor is kept when the ends of the selection are the
\* ends the movements remember (mInteractiveStart, mInteractiveEnd), that is
\* when the selection was made by the movements themselves.
MoveKeepsAnchorOfInteractiveSelection ==
    [][(/\ lastOp' \in CursorMoves
        /\ ~fault'
        /\ mState' = SelectingMove(lastOp', Editor).mState
        /\ mState'.mCursorPosition # mState.mCursorPosition
        /\ mState.mCursorPosition \in {mState.mSelectionStart, mState.mSelectionEnd}
        /\ {mInteractiveStart, mInteractiveEnd} =
              {mState.mSelectionStart, mState.mSelectionEnd}) =>
           LET cur == mState.mCursorPosition
               anchor == IF cur = mState.mSelectionStart THEN mState.mSelectionEnd
                         ELSE mState.mSelectionStart
               a == SanitizeCoordinates(mLines, mTabSize, anchor)
               n == SanitizeCoordinates(mLines, mTabSize, mState'.mCursorPosition)
           IN /\ mState'.mSelectionStart = CoordMin(a, n)
              /\ mState'.mSelectionEnd = (IF CoordLess(a, n) THEN n ELSE a)]_vars

\* ------------------------------------------------------------ UTF8CharLength

\* C27: UTF8CharLength gives every byte the length of its class - 11111110
\* is 6, 111110xx is 5, 11110xxx is 4, 1110xxxx is 3, 110xxxxx is 2,
\* anything else is 1 - and never less than 1.
UTF8CharLengthByLeadByte ==
    lastOp = "UTF8CharLength" =>
        /\ returned = (IF given.c = 254 THEN 6
                       ELSE IF given.c \in 248 .. 251 THEN 5
                       ELSE IF given.c \in 240 .. 247 THEN 4
                       ELSE IF given.c \in 224 .. 239 THEN 3
                       ELSE IF given.c \in 192 .. 223 THEN 2
                       ELSE 1)
        /\ returned >= 1

\* What holds: the lead byte of six is 1111110x (0xFC, 0xFD); 11111110 is
\* one of the bytes of length 1.
UTF8CharLengthByLeadByteOfSix ==
    lastOp = "UTF8CharLength" =>
        /\ returned = (IF given.c \in 252 .. 253 THEN 6
                       ELSE IF given.c \in 248 .. 251 THEN 5
                       ELSE IF given.c \in 240 .. 247 THEN 4
                       ELSE IF given.c \in 224 .. 239 THEN 3
                       ELSE IF given.c \in 192 .. 223 THEN 2
                       ELSE 1)
        /\ returned >= 1

\* UTF8CharLength was asked for 0xFD and answered 6.
LengthOfLeadByteOfSix ==
    /\ lastOp = "UTF8CharLength"
    /\ given.c = 253
    /\ returned = 6

\* ------------------------------------------------- the states of a record

\* C28: the record an edit pushes has the EditorState before the edit as
\* its before-state and the EditorState after the edit as its after-state,
\* so Undo and then Redo give the text and the EditorState the edit left.
RecordHoldsStatesAroundEdit ==
    [][(lastOp' \in RecordingEdits /\ ~fault' /\ mUndoIndex' = mUndoIndex + 1) =>
          LET u == mUndoBuffer'[mUndoIndex']
              back == Redo(Undo(Editor', 1), 1)
          IN /\ u.mBefore = mState
             /\ u.mAfter = mState'
             /\ ~back.fault
             /\ back.mLines = mLines'
             /\ back.mState = mState']_vars

\* What holds: the before-state of the record is the EditorState before
\* the edit.
RecordHoldsStateBeforeEdit ==
    [][(lastOp' \in RecordingEdits /\ ~fault' /\ mUndoIndex' = mUndoIndex + 1) =>
          mUndoBuffer'[mUndoIndex'].mBefore = mState]_vars

\* ------------------------------------------------------ block comment toggle

\* The step is a block-mode toggle that took effect.
BlockToggled ==
    /\ lastOp' = "ToggleComment"
    /\ ~fault'
    /\ ~mReadOnly
    /\ mUndoIndex' = mUndoIndex + 1
    /\ mLines' = ToggleComment(Editor, TRUE).mLines
    /\ mState' = ToggleComment(Editor, TRUE).mState

\* A text of the form "/*" ... "*/".
IsWrapped(t) ==
    Len(t) >= 4 /\ SubSeq(t, 1, 2) = BlockOpen /\ SubSeq(t, Len(t) - 1, Len(t)) = BlockClose

\* The text of the selection.
SelectedText ==
    GetText(mLines, mTabSize, Sanitized(Editor, mState.mSelectionStart),
            Sanitized(Editor, mState.mSelectionEnd))

\* No line of the document holds a tab.
DocumentWithoutTab ==
    \A l \in 1 .. Len(mLines) : \A i \in 1 .. Len(mLines[l]) : mLines[l][i] # TabChar

\* C29: a block-mode toggle without selection inserts "/* */" at the cursor
\* and puts the cursor two columns right of the insertion point; with a
\* selection whose text is not wrapped it replaces the selection by
\* "/*" + text + "*/" and selects the result, and a second block-mode
\* toggle on that selection restores the original text.
BlockToggleInsertsWrapsUnwraps ==
    [][BlockToggled =>
          IF ~HasSelection(Editor)
          THEN LET coord == GetActualCursorCoordinates(Editor)
               IN /\ Joined(mLines') =
                        TextBefore(mLines, mTabSize, coord)
                           \o BlockOpen \o <<SpaceChar>> \o BlockClose
                           \o TextFrom(mLines, mTabSize, coord)
                  /\ mState'.mCursorPosition =
                        Coordinates(coord.mLine, coord.mColumn + 2)
          ELSE ~IsWrapped(SelectedText) =>
                  LET s == Sanitized(Editor, mState.mSelectionStart)
                      t == Sanitized(Editor, mState.mSelectionEnd)
                      again == ToggleComment(Editor', TRUE)
                  IN /\ Joined(mLines') =
                           TextBefore(mLines, mTabSize, s)
                              \o BlockOpen \o SelectedText \o BlockClose
                              \o TextFrom(mLines, mTabSize, t)
                     /\ mState'.mSelectionStart = s
                     /\ GetText(mLines', mTabSize, mState'.mSelectionStart,
                                mState'.mSelectionEnd) =
                           BlockOpen \o SelectedText \o BlockClose
                     /\ ~again.fault
                     /\ again.mLines = mLines]_vars

\* What holds: the same, for a selection in a document without a tab (the
\* insertion without selection is as claimed with tabs too).
BlockToggleInsertsWrapsUnwrapsWithoutTab ==
    [][BlockToggled =>
          IF ~HasSelection(Editor)
          THEN LET coord == GetActualCursorCoordinates(Editor)
               IN /\ Joined(mLines') =
                        TextBefore(mLines, mTabSize, coord)
                           \o BlockOpen \o <<SpaceChar>> \o BlockClose
                           \o TextFrom(mLines, mTabSize, coord)
                  /\ mState'.mCursorPosition =
                        Coordinates(coord.mLine, coord.mColumn + 2)
          ELSE (~IsWrapped(SelectedText) /\ DocumentWithoutTab) =>
                  LET s == Sanitized(Editor, mState.mSelectionStart)
                      t == Sanitized(Editor, mState.mSelectionEnd)
                      again == ToggleComment(Editor', TRUE)
                  IN /\ Joined(mLines') =
                           TextBefore(mLines, mTabSize, s)
                              \o BlockOpen \o SelectedText \o BlockClose
                              \o TextFrom(mLines, mTabSize, t)
                     /\ mState'.mSelectionStart = s
                     /\ GetText(mLines', mTabSize, mState'.mSelectionStart,
                                mState'.mSelectionEnd) =
                           BlockOpen \o SelectedText \o BlockClose
                     /\ ~again.fault
                     /\ again.mLines = mLines]_vars

\* ------------------------------------------------ the prefix of the language

\* C30: the prefix the line-mode toggle inserts, detects and removes is the
\* single-line-comment prefix of the language definition in use ("--" for
\* the default Lua definition): every line the toggle changes has gained or
\* lost that prefix after its leading whitespace.
LineTogglePrefixIsOfLanguage ==
    [][(lastOp' = "ToggleLineComment" /\ ~fault' /\ mLines' # mLines) =>
          \A i \in 1 .. Len(mLines) :
              mLines'[i] # mLines[i] =>
                 LET nw == FirstNonWs(mLines[i], 0)
                     prefix == SingleLineComment(mLanguageDefinition)
                 IN \/ mLines'[i] = InsertSlice(mLines[i], nw, prefix)
                    \/ mLines[i] = InsertSlice(mLines'[i], nw, prefix)]_vars

\* What holds: the prefix is "//" whatever the language definition.
LineTogglePrefixIsSlashes ==
    [][(lastOp' = "ToggleLineComment" /\ ~fault' /\ mLines' # mLines) =>
          \A i \in 1 .. Len(mLines) :
              mLines'[i] # mLines[i] =>
                 LET nw == FirstNonWs(mLines[i], 0)
                 IN \/ mLines'[i] = InsertSlice(mLines[i], nw, <<SlashChar, SlashChar>>)
                    \/ mLines[i] = InsertSlice(mLines'[i], nw, <<SlashChar, SlashChar>>)]_vars

\* ------------------------------------------------------- the history cursor

StateRefersToExistingLines ==
    [][/\ ~fault' =>
             /\ mState'.mCursorPosition.mLine < Len(mLines')
             /\ mState'.mSelectionStart.mLine < Len(mLines')
             /\ mState'.mSelectionEnd.mLine < Len(mLines')
       /\ (lastOp' \in {"SetText", "SetTextLines"} /\ ~fault') =>
             /\ ~Delete(Editor').fault
             /\ ~Backspace(Editor').fault
             /\ ~Cut(Editor').fault
             /\ ~Paste(Editor').fault
             /\ ~EnterCharacter(Editor', 97, FALSE).fault]_vars

\* The second half alone: no edit right after a load reaches outside the
\* line buffer.
EditAfterLoadStaysInsideBuffer ==
    [][(lastOp' \in {"SetText", "SetTextLines"} /\ ~fault') =>
          /\ ~Delete(Editor').fault
          /\ ~Backspace(Editor').fault
          /\ ~Cut(Editor').fault
          /\ ~Paste(Editor').fault
          /\ ~EnterCharacter(Editor', 97, FALSE).fault]_vars

\* ------------------------------------------------ moves without selection

\* What the movement named op makes of e when it does not extend the
\* selection.
PlainMove(op, e) ==
    CASE op = "MoveUp" -> MoveUp(e, 1, FALSE)
      [] op = "MoveDown" -> MoveDown(e, 1, FALSE)
      [] op = "MoveLeft" -> MoveLeft(e, FALSE)
      [] op = "MoveRight" -> MoveRight(e, FALSE)
      [] op = "MoveTop" -> MoveTop(e, FALSE)
      [] op = "MoveBottom" -> MoveBottom(e, FALSE)
      [] op = "MoveHome" -> MoveHome(e, FALSE)
      [] op = "MoveEnd" -> MoveEnd(e, FALSE)
      [] OTHER -> e

\* C39: after a cursor movement that does not extend the selection the
\* selection is empty, also when the cursor could not move.
PlainMoveClearsSelection ==
    [][(/\ lastOp' \in CursorMoves \cup {"MoveTop", "MoveBottom"}
        /\ ~fault'
        /\ mState' = PlainMove(lastOp', Editor).mState
        /\ mInteractiveStart' = PlainMove(lastOp', Editor).mInteractiveStart
        /\ mInteractiveEnd' = PlainMove(lastOp', Editor).mInteractiveEnd) =>
          /\ mState'.mSelectionStart = mState'.mSelectionEnd
          /\ ~HasSelection(Editor')]_vars

\* What holds: the selection is empty after such a movement when the
\* cursor did move.
PlainMoveThatMovesClearsSelection ==
    [][(/\ lastOp' \in CursorMoves \cup {"MoveTop", "MoveBottom"}
        /\ ~fault'
        /\ mState' = PlainMove(lastOp', Editor).mState
        /\ mInteractiveStart' = PlainMove(lastOp', Editor).mInteractiveStart
        /\ mInteractiveEnd' = PlainMove(lastOp', Editor).mInteractiveEnd
        /\ mState'.mCursorPosition # mState.mCursorPosition) =>
          /\ mState'.mSelectionStart = mState'.mSelectionEnd
          /\ ~HasSelection(Editor')]_vars

\* --------------------------------------------- the index inside the line

\* C37: for any bytes in a line, a lead byte cut off at the end of the line
\* included, and any coordinate on an existing line, GetCharacterIndex
\* returns an index in [0, length of the line].
CharacterIndexInsideLine ==
    (lastOp = "GetCharacterIndex" /\ given.aCoordinates.mLine < Len(mLines)) =>
        /\ 0 <= returned
        /\ returned <= Len(LineAt(mLines, given.aCoordinates.mLine))

\* What holds: the index is inside the line when every lead byte of the
\* line has its continuation bytes.
CharacterIndexInsideWholeCharacters ==
    (/\ lastOp = "GetCharacterIndex"
     /\ given.aCoordinates.mLine < Len(mLines)
     /\ LET line == LineAt(mLines, given.aCoordinates.mLine)
        IN \A i \in CharStarts(line, 0) :
              i + UTF8CharLength(line[i + 1]) <= Len(line)) =>
        /\ 0 <= returned
        /\ returned <= Len(LineAt(mLines, given.aCoordinates.mLine))

\* ------------------------------------------------ the accepted tab sizes

\* A one-line document after SetTabSize(n): the tab size is n clamped to
\* 0 .. 32.
InitTabSizes ==
    /\ mLines \in {<<l>> : l \in LinesOver(ColumnChars, MaxColumnLineLen)}
    /\ mTabSize \in {Max2(0, Min2(32, n)) : n \in {-1, 0, 1, 2, 4, 32, 33}}
    /\ ConstructedAround

SpecTabSizes == InitTabSizes /\ [][NextColumns]_vars

\* The column functions.
ColumnFunctions == {"GetCharacterIndex", "GetCharacterColumn", "GetLineMaxColumn"}

\* C36: for every tab size SetTabSize accepts, GetCharacterIndex,
\* GetCharacterColumn and GetLineMaxColumn are defined on a line with a tab
\* (they return, dividing by no zero), and a tab advances the column by at
\* least 1: the last column of a line is at least its number of characters.
ColumnsDefinedForAcceptedTabSizes ==
    lastOp \in ColumnFunctions =>
        /\ ~fault
        /\ lastOp = "GetLineMaxColumn" /\ given.aLine < Len(mLines) =>
              returned >= Cardinality(CharStarts(LineAt(mLines, given.aLine), 0))

\* What holds: the same for the tab sizes 1 .. 32.
ColumnsDefinedForPositiveTabSizes ==
    (lastOp \in ColumnFunctions /\ mTabSize >= 1) =>
        /\ ~fault
        /\ lastOp = "GetLineMaxColumn" /\ given.aLine < Len(mLines) =>
              returned >= Cardinality(CharStarts(LineAt(mLines, given.aLine), 0))

\* A column function was called with tab size 32 on a line with a tab.
ColumnOfTabWithLargestTabSize ==
    /\ lastOp = "GetLineMaxColumn"
    /\ mTabSize = 32
    /\ ~fault
    /\ given.aLine = 0
    /\ TabAt(LineAt(mLines, 0), 0)
    /\ returned >= 32

\* ------------------------------------------------- SetText, then GetText

\* C35: for a text t without '\r', after SetText(t) GetText() is t, and
\* SetText(GetText()) leaves the number of lines as it is.
SetTextGetTextRoundTrip ==
    [][\A t \in LoadedTexts :
          (/\ lastOp' = "SetText"
           /\ steps' = steps + 1
           /\ ~fault'
           /\ mLines' = SetText(Editor, t).mLines) =>
              /\ GetTextAll(mLines', mTabSize') = t
              /\ Len(SetText(Editor', GetTextAll(mLines', mTabSize')).mLines)
                    = Len(mLines')]_vars

\* What holds: GetText() is t with a newline added, and SetText(GetText())
\* adds an empty line to the document.
SetTextGetTextAddsNewline ==
    [][\A t \in LoadedTexts :
          (/\ lastOp' = "SetText"
           /\ steps' = steps + 1
           /\ ~fault'
           /\ mLines' = SetText(Editor, t).mLines) =>
              /\ GetTextAll(mLines', mTabSize') = t \o <<NewLine>>
              /\ SetText(Editor', GetTextAll(mLines', mTabSize')).mLines
                    = Append(mLines', <<>>)]_vars

\* ------------------------------------------------- the flags of the glyphs

QuoteChar == 34
HashChar == 35
BackslashChar == 92
LeftBracket == 91
RightBracket == 93

\* LanguageDefinition::mCommentStart and mCommentEnd.
CommentStart(lang) ==
    IF lang = "CPlusPlus" THEN <<SlashChar, StarChar>>
    ELSE <<DashChar, DashChar, LeftBracket, LeftBracket>>

CommentEnd(lang) ==
    IF lang = "CPlusPlus" THEN <<StarChar, SlashChar>>
    ELSE <<RightBracket, RightBracket>>

\* The sweep over comments and strings of ColorizeInternal over the glyphs
\* of a document: the flags it leaves on every glyph, whether it stored
\* behind the last glyph of a line (outside), and how often it entered
\* each line (visits).  Glyphs the sweep steps over keep the flags they had.
CommentSweep(lines, lang, glyphs) ==
    LET \* equals(str, line[i .. i + size)): the string begins at index i.
        BeginsAt(line, i, str) ==
            i + Len(str) <= Len(line) /\ SubSeq(line, i + 1, i + Len(str)) = str
        \* equals(str, line[i + 1 - size .. i + 1)): the string ends at index i.
        EndsAt(line, i, str) ==
            i + 1 >= Len(str) /\ SubSeq(line, i + 2 - Len(str), i + 1) = str
        \* line[i].field = value: a store into the glyph, or behind the last
        \* glyph of the line when i is the size of the line.
        StoreFlag(s, l, i, field, value) ==
            IF i < Len(s.glyphs[l + 1])
            THEN [s EXCEPT !.glyphs[l + 1][i + 1][field] = value]
            ELSE [s EXCEPT !.outside = TRUE]
        \* commentStartLine < currentLine || (commentStartLine == currentLine
        \* && commentStartIndex <= currentIndex)
        InComment(s, l, i) ==
            \/ s.commentStartLine < l
            \/ (s.commentStartLine = l /\ s.commentStartIndex <= i)
        \* The locals before the loop.
        start ==
            [currentLine |-> 0, currentIndex |-> 0,
             commentStartLine |-> Len(lines), commentStartIndex |-> 0,
             withinString |-> FALSE, withinSingleLineComment |-> FALSE,
             withinPreproc |-> FALSE, firstChar |-> TRUE, concatenate |-> FALSE,
             glyphs |-> glyphs,
             visits |-> [l \in 1 .. Len(lines) |-> 0],
             outside |-> FALSE]
        \* the head of the loop body: a line begins
        Enter(s) ==
            [s EXCEPT !.withinSingleLineComment =
                          @ /\ ~(s.currentIndex = 0 /\ ~s.concatenate),
                      !.withinPreproc = @ /\ ~(s.currentIndex = 0 /\ ~s.concatenate),
                      !.firstChar = @ \/ (s.currentIndex = 0 /\ ~s.concatenate),
                      !.concatenate = FALSE,
                      !.visits[s.currentLine + 1] =
                          @ + (IF s.currentIndex = 0 THEN 1 ELSE 0)]
        \* firstChar and concatenate at the character c at index i
        Look(s, line, i, c) ==
            [s EXCEPT !.firstChar = @ /\ ~(c # HashChar /\ ~IsSpace(c)),
                      !.concatenate = (i = Len(line) - 1
                                       /\ line[Len(line)] = BackslashChar)]
        \* the branch of an open string
        InString(s, line, l, i, c, inComment) ==
            IF c = QuoteChar
            THEN IF i + 1 < Len(line) /\ line[i + 2] = QuoteChar
                 THEN [StoreFlag(StoreFlag(s, l, i, "mMultiLineComment", inComment),
                                 l, i + 1, "mMultiLineComment", inComment)
                          EXCEPT !.currentIndex = i + 1]
                 ELSE [StoreFlag(s, l, i, "mMultiLineComment", inComment)
                          EXCEPT !.withinString = FALSE]
            ELSE IF c = BackslashChar
                 THEN IF i + 1 < Len(line)
                      THEN [StoreFlag(StoreFlag(s, l, i, "mMultiLineComment", inComment),
                                      l, i + 1, "mMultiLineComment", inComment)
                               EXCEPT !.currentIndex = i + 1]
                      ELSE [StoreFlag(s, l, i, "mMultiLineComment", inComment)
                               EXCEPT !.currentIndex = i + 1]
                 ELSE StoreFlag(s, l, i, "mMultiLineComment", inComment)
        \* the end delimiter ends at index i
        Close(s, line, i) ==
            IF EndsAt(line, i, CommentEnd(lang))
            THEN [s EXCEPT !.commentStartLine = Len(lines), !.commentStartIndex = 0]
            ELSE s
        \* the flags of the glyph at index i outside strings
        Mark(s, l, i) ==
            StoreFlag(StoreFlag(s, l, i, "mMultiLineComment", InComment(s, l, i)),
                      l, i, "mComment", s.withinSingleLineComment)
        \* a single-line comment or a block comment begins at index i
        Open(s, line, l, i) ==
            IF /\ Len(SingleLineComment(lang)) > 0
               /\ BeginsAt(line, i, SingleLineComment(lang))
            THEN [s EXCEPT !.withinSingleLineComment = TRUE]
            ELSE IF ~s.withinSingleLineComment /\ BeginsAt(line, i, CommentStart(lang))
                 THEN [s EXCEPT !.commentStartLine = l, !.commentStartIndex = i]
                 ELSE s
        \* the branch outside strings
        OutString(s, line, l, i, c, inComment) ==
            IF c = QuoteChar
            THEN StoreFlag([s EXCEPT !.withinPreproc = @ \/ (s.firstChar /\ c = HashChar),
                                     !.withinString = TRUE],
                           l, i, "mMultiLineComment", inComment)
            ELSE Close(Mark(Open([s EXCEPT !.withinPreproc =
                                               @ \/ (s.firstChar /\ c = HashChar)],
                                 line, l, i),
                            l, i),
                       line, i)
        \* the tail of the loop body: mPreprocessor of the glyph at the
        \* index the branch left, and the step to the next character
        Leave(s, line, l, c) ==
            LET next == s.currentIndex + UTF8CharLength(c)
            IN [StoreFlag(s, l, s.currentIndex, "mPreprocessor", s.withinPreproc)
                   EXCEPT !.currentLine = IF next >= Len(line) THEN l + 1 ELSE l,
                          !.currentIndex = IF next >= Len(line) THEN 0 ELSE next]
        \* the body of the loop on a line with glyphs
        Visit(s, line, l, i, c) ==
            Leave(IF s.withinString
                  THEN InString(s, line, l, i, c, InComment(s, l, i))
                  ELSE OutString(s, line, l, i, c, InComment(s, l, i)),
                  line, l, c)
        Body(s, line, l, i) ==
            IF Len(line) = 0
            THEN [s EXCEPT !.currentLine = l + 1, !.currentIndex = 0]
            ELSE Visit(Look(s, line, i, line[i + 1]), line, l, i, line[i + 1])
        RECURSIVE Sweep(_)
        Sweep(s) ==
            IF ~(s.currentLine < Len(lines)) THEN s
            ELSE Sweep(Body(Enter(s), LineAt(lines, s.currentLine),
                            s.currentLine, s.currentIndex))
        Result(s) == [glyphs |-> s.glyphs, outside |-> s.outside, visits |-> s.visits]
    IN Result(Sweep(start))

\* ------------------------------------------------------------ the tokens

\* The tokenizer of the C++ definition on buffer[first ..): whether it
\* found a token, its begin and end (indices from 0, the end behind the
\* token) and its colour.
Tokenize(buffer, first) ==
    LET end == Len(buffer)
        At(p) == buffer[p + 1]
        Is(p, chars) == p < end /\ At(p) \in chars
        Digits == 48 .. 57
        Letters == (97 .. 122) \cup (65 .. 90) \cup {95}
        RECURSIVE Skip(_, _)
        \* while (p < in_end && *p in chars) p++
        Skip(p, chars) == IF Is(p, chars) THEN Skip(p + 1, chars) ELSE p
        Opt(p, chars) == IF Is(p, chars) THEN p + 1 ELSE p
        Token(b, e, color) == [found |-> TRUE, begin |-> b, end |-> e, color |-> color]
        RECURSIVE StringEnd(_)
        \* TokenizeCStyleString behind the opening quote: the end, or -1
        StringEnd(p) ==
            IF ~(p < end) THEN -1
            ELSE IF At(p) = QuoteChar THEN p + 1
            ELSE IF At(p) = BackslashChar /\ Is(p + 1, {QuoteChar})
                 THEN StringEnd(p + 2)
                 ELSE StringEnd(p + 1)
        String(in) == IF At(in) = QuoteChar THEN StringEnd(in + 1) ELSE -1
        \* TokenizeCStyleCharacterLiteral: behind the quote an escape
        \* character, a character, and the closing quote
        Closing(p) == IF Is(p, {39}) THEN p + 1 ELSE -1
        Literal(in) ==
            IF At(in) # 39 THEN -1
            ELSE Closing(Opt(Opt(in + 1, {BackslashChar}), 0 .. 255))
        \* TokenizeCStyleIdentifier
        Identifier(in) ==
            IF At(in) \in Letters THEN Skip(in + 1, Letters \cup Digits) ELSE -1
        \* TokenizeCStyleNumber: the suffixes, the exponent, the fraction or
        \* the hexadecimal or binary digits, the leading digits
        Suffix(p, isFloat) ==
            IF isFloat THEN p ELSE Skip(p, {117, 85, 108, 76})
        ExponentDigits(p3, p4) ==
            IF p4 = p3 THEN -1 ELSE Suffix(Opt(p4, {102}), TRUE)
        ExponentFrom(p3) == ExponentDigits(p3, Skip(p3, Digits))
        Exponent(p2, isFloat) ==
            IF Is(p2, {101, 69}) THEN ExponentFrom(Opt(p2 + 1, {43, 45}))
            ELSE Suffix(Opt(p2, {102}), isFloat)
        Behind(p1) ==
            IF Is(p1, {46}) THEN Exponent(Skip(p1 + 1, Digits), TRUE)
            ELSE IF Is(p1, {120, 88})
                 THEN Suffix(Skip(p1 + 1, Digits \cup (97 .. 102) \cup (65 .. 70)), FALSE)
            ELSE IF Is(p1, {98, 66}) THEN Suffix(Skip(p1 + 1, {48, 49}), FALSE)
            ELSE Exponent(p1, FALSE)
        Leading(in, p1) ==
            IF ~(At(in) \in Digits \/ p1 > in + 1) THEN -1 ELSE Behind(p1)
        Number(in) ==
            IF At(in) \notin {43, 45} \cup Digits THEN -1
            ELSE Leading(in, Skip(in + 1, Digits))
        \* TokenizeCStylePunctuation
        Punctuation(in) ==
            IF At(in) \in {91, 93, 123, 125, 33, 37, 94, 38, 42, 40, 41, 45, 43, 61,
                           126, 124, 60, 62, 63, 58, 47, 59, 44, 46}
            THEN in + 1 ELSE -1
        \* the lambda behind the blanks it steps over
        Try(in, string, literal, identifier, number, punctuation) ==
            IF string # -1 THEN Token(in, string, "String")
            ELSE IF literal # -1 THEN Token(in, literal, "CharLiteral")
            ELSE IF identifier # -1 THEN Token(in, identifier, "Identifier")
            ELSE IF number # -1 THEN Token(in, number, "Number")
            ELSE IF punctuation # -1 THEN Token(in, punctuation, "Punctuation")
            ELSE [found |-> FALSE, begin |-> first, end |-> first, color |-> "Max"]
        From(in) ==
            IF in = end THEN Token(end, end, "Default")
            ELSE Try(in, String(in), Literal(in), Identifier(in), Number(in),
                     Punctuation(in))
    IN From(Skip(first, {SpaceChar, TabChar}))

\* The ends of the matches of the regular expressions of the Lua definition
\* at buffer[first ..), in the order of mTokenRegexStrings, -1 for an
\* expression that does not match there, each with its colour.
RegexMatches(buffer, first) ==
    LET end == Len(buffer)
        At(p) == buffer[p + 1]
        Is(p, chars) == p < end /\ At(p) \in chars
        Digits == 48 .. 57
        HexDigits == Digits \cup (97 .. 102) \cup (65 .. 70)
        Letters == (97 .. 122) \cup (65 .. 90) \cup {95}
        RECURSIVE Skip(_, _)
        Skip(p, chars) == IF Is(p, chars) THEN Skip(p + 1, chars) ELSE p
        Opt(p, chars) == IF Is(p, chars) THEN p + 1 ELSE p
        Else(match, other) == IF match # -1 THEN match ELSE other
        Suffixes(p) == Opt(Opt(Opt(p, {117, 85}), {108, 76}), {108, 76})
        RECURSIVE Body(_)
        \* (\\.|[^"])*" from p: the alternatives in their order, the longer
        \* repetition before the shorter one
        Body(p) ==
            Else(IF Is(p, {BackslashChar}) /\ Is(p + 1, (0 .. 255) \ {NewLine, CarriageReturn})
                 THEN Body(p + 2) ELSE -1,
                 Else(IF Is(p, (0 .. 255) \ {QuoteChar}) THEN Body(p + 1) ELSE -1,
                      IF Is(p, {QuoteChar}) THEN p + 1 ELSE -1))
        \* L?"(\\.|[^"])*"
        Quoted ==
            Else(IF Is(first, {76}) /\ Is(first + 1, {QuoteChar})
                 THEN Body(first + 2) ELSE -1,
                 IF Is(first, {QuoteChar}) THEN Body(first + 1) ELSE -1)
        \* '[^']*'
        Closing(p) == IF Is(p, {39}) THEN p + 1 ELSE -1
        Single ==
            IF Is(first, {39}) THEN Closing(Skip(first + 1, (0 .. 255) \ {39})) ELSE -1
        \* 0[xX][0-9a-fA-F]+[uU]?[lL]?[lL]?
        Hex ==
            IF Is(first, {48}) /\ Is(first + 1, {120, 88}) /\ Is(first + 2, HexDigits)
            THEN Suffixes(Skip(first + 2, HexDigits))
            ELSE -1
        \* [+-]?([0-9]+([.][0-9]*)?|[.][0-9]+)([eE][+-]?[0-9]+)?[fF]?
        ExponentDigits(p, digits) ==
            Opt(IF Is(digits, Digits) THEN Skip(digits, Digits) ELSE p, {102, 70})
        Exponent(p) ==
            IF Is(p, {101, 69}) THEN ExponentDigits(p, Opt(p + 1, {43, 45}))
            ELSE Opt(p, {102, 70})
        Fraction(p) == IF Is(p, {46}) THEN Skip(p + 1, Digits) ELSE p
        Mantissa(p0) ==
            IF Is(p0, Digits) THEN Exponent(Fraction(Skip(p0, Digits)))
            ELSE IF Is(p0, {46}) /\ Is(p0 + 1, Digits)
                 THEN Exponent(Skip(p0 + 1, Digits))
                 ELSE -1
        Float == Mantissa(Opt(first, {43, 45}))
        \* [+-]?[0-9]+[Uu]?[lL]?[lL]?
        Whole(p0) == IF Is(p0, Digits) THEN Suffixes(Skip(p0, Digits)) ELSE -1
        Integer == Whole(Opt(first, {43, 45}))
        \* [a-zA-Z_][a-zA-Z0-9_]*
        Identifier ==
            IF Is(first, Letters) THEN Skip(first + 1, Letters \cup Digits) ELSE -1
        \* one of [ ] { } ! % ^ & * ( ) - + = ~ | < > ? / ; , .
        Punctuation ==
            IF Is(first, {91, 93, 123, 125, 33, 37, 94, 38, 42, 40, 41, 45, 43, 61,
                          126, 124, 60, 62, 63, 47, 59, 44, 46})
            THEN first + 1 ELSE -1
    IN << [end |-> Quoted, color |-> "String"],
          [end |-> Single, color |-> "String"],
          [end |-> Hex, color |-> "Number"],
          [end |-> Float, color |-> "Number"],
          [end |-> Integer, color |-> "Number"],
          [end |-> Identifier, color |-> "Identifier"],
          [end |-> Punctuation, color |-> "Punctuation"] >>

\* A classification that looks into the table of known identifiers before
\* the keywords.
ClassifyIdentifierKnownFirst(def, id, preprocessor) ==
    IF ~preprocessor
    THEN IF id \in def.mIdentifiers THEN "KnownIdentifier"
         ELSE IF id \in def.mKeywords THEN "Keyword"
         ELSE IF id \in def.mPreprocIdentifiers THEN "PreprocIdentifier"
         ELSE "Identifier"
    ELSE IF id \in def.mPreprocIdentifiers THEN "PreprocIdentifier"
         ELSE "Identifier"

\* The colour ColorizeRange gives an Identifier token: id is the token,
\* in upper case under a case-insensitive definition, preprocessor the
\* flag of the glyph the scan stood at.
ClassifyIdentifier(def, id, preprocessor) ==
    IF ~preprocessor
    THEN IF id \in def.mKeywords THEN "Keyword"
         ELSE IF id \in def.mIdentifiers THEN "KnownIdentifier"
         ELSE IF id \in def.mPreprocIdentifiers THEN "PreprocIdentifier"
         ELSE "Identifier"
    ELSE IF id \in def.mPreprocIdentifiers THEN "PreprocIdentifier"
         ELSE "Identifier"

\* ColorizeRange(aFromLine, aToLine) over the glyphs of the document under
\* the language definition def: the colour of every glyph, and the tokens
\* found, each with the position the scan stood at (first), its begin and
\* end, the colour the tokenizer or expression gave it (kind) and the colour
\* its glyphs got.
ColorizeRangeGlyphs(lines, glyphs, def, aFromLine, aToLine) ==
    LET \* ::toupper of every character
        ToUpper(id) == [k \in 1 .. Len(id) |->
                           IF id[k] \in 97 .. 122 THEN id[k] - 32 ELSE id[k]]
        \* the first expression of the list that matches at first
        Hit(matches, hits, first) ==
            IF def.base = "CPlusPlus" \/ hits = {}
            THEN [found |-> FALSE, begin |-> first, end |-> first, color |-> "Default"]
            ELSE [found |-> TRUE, begin |-> first,
                  end |-> matches[CHOOSE h \in hits : \A h2 \in hits : h <= h2].end,
                  color |-> matches[CHOOSE h \in hits : \A h2 \in hits : h <= h2].color]
        Hits(matches, first) ==
            Hit(matches, {k \in 1 .. Len(matches) : matches[k].end # -1}, first)
        RegexSearch(buffer, first) == Hits(RegexMatches(buffer, first), first)
        \* the token is coloured and the scan goes on behind it
        Paint(r, l, first, token, id) ==
            [colors |-> [r.colors EXCEPT ![l] =
                 [j \in 1 .. Len(lines[l]) |->
                     IF token.begin < j /\ j <= token.end
                     THEN IF token.color = "Identifier"
                          THEN ClassifyIdentifier(def, id, glyphs[l][first + 1].mPreprocessor)
                          ELSE token.color
                     ELSE @[j]]],
             tokens |-> Append(r.tokens,
                 [line |-> l - 1, first |-> first, begin |-> token.begin,
                  end |-> token.end, id |-> id, kind |-> token.color,
                  color |-> IF token.color = "Identifier"
                            THEN ClassifyIdentifier(def, id, glyphs[l][first + 1].mPreprocessor)
                            ELSE token.color])]
        Fold(text) == IF def.mCaseSensitive THEN text ELSE ToUpper(text)
        \* the tokenizer of the definition, then the expressions
        Find(tokenized, buffer, first) ==
            IF tokenized.found THEN tokenized ELSE RegexSearch(buffer, first)
        RECURSIVE Scan(_, _, _)
        RECURSIVE Take(_, _, _, _)
        \* the loop over one line, from the position first
        Scan(l, first, r) ==
            IF first >= Len(lines[l]) THEN r
            ELSE Take(l, first, r,
                      Find(IF HasTokenize(def.base) THEN Tokenize(lines[l], first)
                           ELSE [found |-> FALSE],
                           lines[l], first))
        Take(l, first, r, token) ==
            IF ~token.found THEN Scan(l, first + 1, r)
            ELSE Scan(l, token.end,
                      Paint(r, l, first, token,
                            Fold(SubSeq(lines[l], token.begin + 1, token.end))))
        RECURSIVE Range(_, _)
        Range(l, r) ==
            IF l > Max2(0, Min2(Len(lines), aToLine)) THEN r
            ELSE Range(l + 1,
                       Scan(l, 0, [r EXCEPT !.colors[l] =
                                      [j \in 1 .. Len(lines[l]) |-> "Default"]]))
        before == [colors |-> [l \in 1 .. Len(lines) |->
                                  [j \in 1 .. Len(lines[l]) |-> "Default"]],
                   tokens |-> <<>>]
    IN IF Len(lines) = 0 \/ aFromLine >= aToLine THEN before
       ELSE Range(aFromLine + 1, before)

\* ---------------------------------------------- colorizing a loaded text

\* The number of pieces a loaded text is made of.
MaxPieces == 3

\* The words "if", "or" and "io".
WordIf == <<105, 102>>
WordOr == <<111, 114>>
WordIo == <<105, 111>>

\* The pieces of the texts: words, a blank, '#', a quote, a backslash, a
\* line break, the comment delimiters of the language, and for Lua "-1",
\* for C++ '/' and a lead byte of two with a blank in place of its
\* continuation byte.
Pieces(lang) ==
    {WordIf, WordOr, WordIo, <<SpaceChar>>, <<HashChar>>, <<QuoteChar>>,
     <<BackslashChar>>, <<NewLine>>,
     SingleLineComment(lang), CommentStart(lang), CommentEnd(lang)}
    \cup (IF lang = "Lua" THEN {<<DashChar, 49>>}
          ELSE {<<SlashChar>>, <<195, SpaceChar>>})

\* The texts of at most n pieces.
RECURSIVE TextsOf(_, _)
TextsOf(pieces, n) ==
    IF n = 0 THEN {<<>>}
    ELSE LET shorter == TextsOf(pieces, n - 1)
         IN shorter \cup {t \o piece : t \in shorter, piece \in pieces}

\* The language definitions given to SetLanguageDefinition: Lua() or
\* CPlusPlus(), their tables cut down to the words of the texts ("if" and
\* "or" are keywords of both, "or" and "io" are among the identifiers of
\* Lua), as they are or changed by the caller to hold "if" and "io" as
\* preprocessor identifiers or to be case-insensitive.
LanguageDefinitions ==
    {[base |-> lang,
      mKeywords |-> {WordIf, WordOr},
      mIdentifiers |-> IF lang = "Lua" THEN {WordOr, WordIo} ELSE {},
      mPreprocIdentifiers |-> preproc,
      mCaseSensitive |-> sensitive] :
        lang \in {"Lua", "CPlusPlus"}, preproc \in {{}, {WordIf, WordIo}},
        sensitive \in BOOLEAN}

\* The editor after SetLanguageDefinition(def) and SetText(text): the whole
\* document is dirty and the comment sweep is due.
InitGlyphs ==
    /\ \E def \in LanguageDefinitions :
          /\ given = [aLanguageDef |-> def]
          /\ mLanguageDefinition = def.base
          /\ mLines \in {SplitLines(t, <<(<<>>)>>) :
                            t \in TextsOf(Pieces(def.base), MaxPieces)}
    /\ mColorRangeMin = 0
    /\ mColorRangeMax = Len(mLines)
    /\ mCheckComments = TRUE
    /\ mColorizerEnabled = TRUE
    /\ mTabSize = 4
    /\ mState = EditorState(Coordinates(0, 0), Coordinates(0, 0), Coordinates(0, 0))
    /\ mInteractiveStart = Coordinates(0, 0)
    /\ mInteractiveEnd = Coordinates(0, 0)
    /\ mUndoBuffer = <<>>
    /\ mUndoIndex = 0
    /\ mReadOnly = FALSE
    /\ mOverwrite = FALSE
    /\ mErrorMarkers = <<>>
    /\ mBreakpoints = {}
    /\ clipboard = <<>>
    /\ fault = FALSE
    /\ assertFailed = FALSE
    /\ plugin = ExamplePlugin
    /\ lastOp = "SetText"
    /\ steps = 0
    /\ undoBefore = [mUndoIndex |-> 0, size |-> 0]
    /\ runLen = 0
    /\ runText = <<>>
    /\ aValue = Coordinates(0, 0)
    /\ sanitized = Coordinates(0, 0)
    /\ returned = <<>>

\* ColorizeInternal() of the first Render after the load: the sweep over
\* the glyphs, which SetText made without flags, then ColorizeRange over the
\* first batch of lines.  "returned" holds what the call left on the glyphs.
\* A store behind the last glyph of a line is outside the line's storage:
\* the call goes on, or the program stops.
DoColorizeGlyphs ==
    /\ ~fault
    /\ mCheckComments
    /\ mColorRangeMin < mColorRangeMax
    /\ LET noFlags == [mMultiLineComment |-> FALSE, mComment |-> FALSE,
                       mPreprocessor |-> FALSE]
           Ranged(swept, from, to) ==
               [glyphs |-> swept.glyphs, outside |-> swept.outside,
                visits |-> swept.visits] @@
               ColorizeRangeGlyphs(mLines, swept.glyphs, given.aLanguageDef, from, to)
           Leaves(r, left) ==
               /\ returned' = left
               /\ fault' \in {FALSE} \cup (IF left.outside THEN {TRUE} ELSE {})
               /\ mColorRangeMin' = r.mColorRangeMin
               /\ mColorRangeMax' = r.mColorRangeMax
               /\ mCheckComments' = r.mCheckComments
           Batch(r) ==
               Leaves(r, Ranged(CommentSweep(mLines, mLanguageDefinition,
                                             [l \in 1 .. Len(mLines) |->
                                                 [i \in 1 .. Len(mLines[l]) |-> noFlags]]),
                                mColorRangeMin,
                                IF r.mColorRangeMin = ColorRangeSentinel
                                THEN mColorRangeMax ELSE r.mColorRangeMin))
       IN /\ lastOp' = "ColorizeInternal"
          /\ Batch(ColorizeInternal(Editor))
          /\ steps' = steps + 1
    /\ UNCHANGED <<mLines, mState, mInteractiveStart, mInteractiveEnd, mUndoBuffer,
                   mUndoIndex, mReadOnly, mOverwrite, mTabSize, mColorizerEnabled,
                   mLanguageDefinition, mErrorMarkers, mBreakpoints, clipboard,
                   assertFailed, undoBefore, runLen, runText, aValue, sanitized,
                   given, plugin>>

SpecGlyphs == InitGlyphs /\ [][DoColorizeGlyphs]_vars

\* ------------------------------------------------ the sweep stays inside

\* C38: the sweep of ColorizeInternal reads and stores only at glyph
\* indices below the length of the line, whatever the document, and visits
\* every line once.
SweepStaysInsideLines ==
    lastOp = "ColorizeInternal" =>
        /\ ~fault
        /\ ~returned.outside
        /\ \A l \in 1 .. Len(mLines) : returned.visits[l] = 1

\* What holds: the same on documents in which no line ends in a backslash.
SweepStaysInsideLinesWithoutFinalBackslash ==
    (/\ lastOp = "ColorizeInternal"
     /\ \A l \in 1 .. Len(mLines) :
           mLines[l] = <<>> \/ mLines[l][Len(mLines[l])] # BackslashChar) =>
        /\ ~fault
        /\ ~returned.outside
        /\ \A l \in 1 .. Len(mLines) : returned.visits[l] = 1

\* -------------------------------------------------- the block comments

\* The glyphs between a block-comment start outside strings and
\* single-line comments and the end delimiter behind it, both included, or
\* the end of the document.  A string lasts to its closing quote, a
\* backslash in it takes the next character with it, a single-line comment
\* lasts to the end of its line.
BlockCommentGlyphs(lines, lang) ==
    LET Mark(flags, l, from, to) ==
            [flags EXCEPT ![l] = [j \in 1 .. Len(lines[l]) |->
                                     (from < j /\ j <= to) \/ @[j]]]
        Begins(l, i, str) ==
            i + Len(str) <= Len(lines[l])
                /\ SubSeq(lines[l], i + 1, i + Len(str)) = str
        RECURSIVE Scan(_, _, _, _)
        Scan(l, i, mode, flags) ==
            IF l > Len(lines) THEN flags
            ELSE IF i >= Len(lines[l])
                 THEN Scan(l + 1, 0, IF mode = "line" THEN "code" ELSE mode, flags)
            ELSE IF mode = "code"
                 THEN IF Begins(l, i, CommentStart(lang))
                      THEN Scan(l, i + Len(CommentStart(lang)), "block",
                                Mark(flags, l, i, i + Len(CommentStart(lang))))
                      ELSE IF Begins(l, i, SingleLineComment(lang))
                           THEN Scan(l, i + 1, "line", flags)
                      ELSE IF lines[l][i + 1] = QuoteChar
                           THEN Scan(l, i + 1, "string", flags)
                      ELSE Scan(l, i + 1, "code", flags)
            ELSE IF mode = "string"
                 THEN IF lines[l][i + 1] = BackslashChar
                      THEN Scan(l, i + 2, "string", flags)
                      ELSE IF lines[l][i + 1] = QuoteChar
                           THEN IF Begins(l, i + 1, <<QuoteChar>>)
                                THEN Scan(l, i + 2, "string", flags)
                                ELSE Scan(l, i + 1, "code", flags)
                      ELSE Scan(l, i + 1, "string", flags)
            ELSE IF mode = "line" THEN Scan(l, i + 1, "line", flags)
            ELSE IF Begins(l, i, CommentEnd(lang))
                 THEN Scan(l, i + Len(CommentEnd(lang)), "code",
                           Mark(flags, l, i, i + Len(CommentEnd(lang))))
                 ELSE Scan(l, i + 1, "block", Mark(flags, l, i, i + 1))
    IN Scan(1, 0, "code", [l \in 1 .. Len(lines) |->
                              [j \in 1 .. Len(lines[l]) |-> FALSE]])

\* C31: after the sweep a glyph has mMultiLineComment exactly if it lies
\* between a block-comment start outside strings and single-line comments
\* and its end delimiter or the end of the document, in C++ and in Lua.
MultiLineCommentBetweenDelimiters ==
    lastOp = "ColorizeInternal" =>
        \A l \in 1 .. Len(mLines) : \A i \in 1 .. Len(mLines[l]) :
            returned.glyphs[l][i].mMultiLineComment
                = BlockCommentGlyphs(mLines, mLanguageDefinition)[l][i]

\* ------------------------------------------------ the colour of a token

\* The token as the tables hold it: in upper case under a case-insensitive
\* definition.
FoldedToken(def, line, token) ==
    LET text == SubSeq(line, token.begin + 1, token.end)
    IN IF def.mCaseSensitive THEN text
       ELSE [k \in 1 .. Len(text) |->
                IF text[k] \in 97 .. 122 THEN text[k] - 32 ELSE text[k]]

\* The token is the match of the first expression of the list that matches
\* where the scan stood.
TokenOfFirstExpression(line, token) ==
    /\ token.begin = token.first
    /\ \E k \in 1 .. 7 :
          /\ RegexMatches(line, token.first)[k].end = token.end
          /\ RegexMatches(line, token.first)[k].color = token.kind
          /\ \A j \in 1 .. k - 1 : RegexMatches(line, token.first)[j].end = -1

\* C32: an Identifier token, case-folded, gets its colour from the first
\* hit among the keywords, the known identifiers and the preprocessor
\* identifiers, the last table being consulted only for a glyph flagged
\* preprocessor; a token whose first glyph is flagged preprocessor is
\* neither Keyword nor KnownIdentifier; and of the expressions the first in
\* the list that matches where the scan stands gives the token.
IdentifierByTablesPreprocOnlyWhenFlagged ==
    (lastOp = "ColorizeInternal" /\ ~fault) =>
        \A k \in 1 .. Len(returned.tokens) :
            LET token == returned.tokens[k]
                def == given.aLanguageDef
                line == mLines[token.line + 1]
                id == FoldedToken(def, line, token)
                flagged == returned.glyphs[token.line + 1][token.begin + 1].mPreprocessor
            IN /\ token.kind = "Identifier" =>
                     /\ token.color =
                            IF flagged
                            THEN IF id \in def.mPreprocIdentifiers
                                 THEN "PreprocIdentifier" ELSE "Identifier"
                            ELSE IF id \in def.mKeywords THEN "Keyword"
                            ELSE IF id \in def.mIdentifiers THEN "KnownIdentifier"
                            ELSE "Identifier"
                     /\ flagged => token.color \notin {"Keyword", "KnownIdentifier"}
               /\ ~HasTokenize(def.base) => TokenOfFirstExpression(line, token)
               /\ \A j \in token.begin + 1 .. token.end :
                     returned.colors[token.line + 1][j] = token.color

\* What holds: the flag is the one of the glyph the scan stood at, which
\* is the first glyph of the token unless the tokenizer stepped over
\* blanks; for a glyph that is not flagged the table of preprocessor
\* identifiers is the third one consulted, for a flagged glyph the only one.
IdentifierByTablesOfScanPosition ==
    (lastOp = "ColorizeInternal" /\ ~fault) =>
        \A k \in 1 .. Len(returned.tokens) :
            LET token == returned.tokens[k]
                def == given.aLanguageDef
                line == mLines[token.line + 1]
                id == FoldedToken(def, line, token)
                flagged == returned.glyphs[token.line + 1][token.first + 1].mPreprocessor
            IN /\ token.kind = "Identifier" =>
                     /\ token.id = id
                     /\ token.color =
                            IF flagged
                            THEN IF id \in def.mPreprocIdentifiers
                                 THEN "PreprocIdentifier" ELSE "Identifier"
                            ELSE IF id \in def.mKeywords THEN "Keyword"
                            ELSE IF id \in def.mIdentifiers THEN "KnownIdentifier"
                            ELSE IF id \in def.mPreprocIdentifiers
                                 THEN "PreprocIdentifier"
                            ELSE "Identifier"
                     /\ flagged => token.color \notin {"Keyword", "KnownIdentifier"}
               /\ ~HasTokenize(def.base) => TokenOfFirstExpression(line, token)
               /\ \A j \in token.begin + 1 .. token.end :
                     returned.colors[token.line + 1][j] = token.color

\* A token outside preprocessor lines that is in no table but the one of
\* the preprocessor identifiers was coloured PreprocIdentifier, and a token
\* that is a keyword and a known identifier was coloured Keyword.
TokensColouredByThirdAndFirstTable ==
    /\ lastOp = "ColorizeInternal"
    /\ ~fault
    /\ \E k \in 1 .. Len(returned.tokens) :
          LET token == returned.tokens[k]
          IN /\ token.id = WordIo
             /\ WordIo \notin given.aLanguageDef.mIdentifiers
             /\ ~returned.glyphs[token.line + 1][token.first + 1].mPreprocessor
             /\ token.color = "PreprocIdentifier"
    /\ \E k \in 1 .. Len(returned.tokens) :
          LET token == returned.tokens[k]
          IN token.id = WordOr /\ token.color = "Keyword"

\* ------------------------------------------------- the host's callbacks

\* A step of a thread inside a callback of the plugin: the plugin becomes p,
\* the editor stays as it is.
Callback(p) ==
    /\ plugin' = p
    /\ UNCHANGED <<mLines, mState, mInteractiveStart, mInteractiveEnd, mUndoBuffer,
                   mUndoIndex, mReadOnly, mOverwrite, mTabSize, mColorizerEnabled,
                   mColorRangeMin, mColorRangeMax, mCheckComments,
                   mLanguageDefinition, mErrorMarkers, mBreakpoints, clipboard,
                   fault, assertFailed, lastOp, steps, undoBefore, runLen, runText,
                   aValue, sanitized, given, returned>>

\* std::scoped_lock _{m_imgui_mutex} of thread t: it waits while another
\* thread owns the mutex.  The mutex is recursive; the locks a callback
\* takes again inside initialize_imgui and on_device_reset are part of the
\* steps that call them.
Locked(t, at) ==
    /\ plugin.owner \in {0, t}
    /\ Callback([plugin EXCEPT !.owner = t, !.pc[t] = at])

\* The callback of thread t returns; return unlocks the mutex if t owns it.
Returned(t, p) ==
    Callback([p EXCEPT !.owner = IF @ = t THEN 0 ELSE @, !.pc[t] = "host"])

\* The host calls a callback on a thread that is in none.
HostCalls(t) ==
    /\ plugin.pc[t] = "host"
    /\ \E callback \in {"on_present", "on_device_reset",
                        "on_post_render_vr_framework", "on_pre_engine_tick"} :
          Callback([plugin EXCEPT !.pc[t] = callback])

\* on_present: the lock, initialize_imgui unless m_initialized, then on the
\* desktop the reset of the device on the first frame, or the frame
\* (ImGui_Impl*_NewFrame and render_imgui), but none without a command queue.
on_present(t) ==
    \/ /\ plugin.pc[t] = "on_present"
       /\ Locked(t, "on_present: initialize")
    \/ /\ plugin.pc[t] = "on_present: initialize"
       /\ \/ /\ ~plugin.m_initialized
             /\ \/ Returned(t, plugin)
                \/ Callback([plugin EXCEPT !.m_initialized = TRUE,
                                           !.pc[t] = "on_present: render"])
          \/ /\ plugin.m_initialized
             /\ Callback([plugin EXCEPT !.pc[t] = "on_present: render"])
    \/ /\ plugin.pc[t] = "on_present: render"
       /\ \E is_hmd_active \in BOOLEAN, command_queue \in BOOLEAN :
             IF is_hmd_active THEN Returned(t, plugin)
             ELSE IF ~plugin.m_was_rendering_desktop
                  THEN Returned(t, [plugin EXCEPT !.m_was_rendering_desktop = TRUE,
                                                  !.m_initialized = FALSE])
             ELSE IF command_queue
                  THEN Callback([plugin EXCEPT !.pc[t] = "on_present: frame"])
                  ELSE Returned(t, plugin)
    \/ /\ plugin.pc[t] = "on_present: frame"
       /\ Returned(t, plugin)

\* on_device_reset: the lock, ImGui_Impl*_Shutdown, m_initialized = false.
on_device_reset(t) ==
    \/ /\ plugin.pc[t] = "on_device_reset"
       /\ Locked(t, "on_device_reset: shutdown")
    \/ /\ plugin.pc[t] = "on_device_reset: shutdown"
       /\ Returned(t, [plugin EXCEPT !.m_initialized = FALSE])

\* on_post_render_vr_framework_dx11 and _dx12: the test of m_initialized
\* and of the headset, the reset of the device when the desktop was
\* rendered last, else the lock and the frame (ImGui_Impl*_NewFrame and
\* render_imgui_vr).
on_post_render_vr_framework(t) ==
    \/ /\ plugin.pc[t] = "on_post_render_vr_framework"
       /\ \E vr_active \in BOOLEAN :
             IF ~plugin.m_initialized \/ ~vr_active THEN Returned(t, plugin)
             ELSE IF plugin.m_was_rendering_desktop
                  THEN Callback([plugin EXCEPT !.m_was_rendering_desktop = FALSE,
                                               !.pc[t] = "on_device_reset"])
                  ELSE Callback([plugin EXCEPT
                                    !.pc[t] = "on_post_render_vr_framework: lock"])
    \/ /\ plugin.pc[t] = "on_post_render_vr_framework: lock"
       /\ Locked(t, "on_post_render_vr_framework: frame")
    \/ /\ plugin.pc[t] = "on_post_render_vr_framework: frame"
       /\ Returned(t, plugin)

\* on_pre_engine_tick: the test of m_initialized, then the lock and the
\* frame (ImGui_ImplWin32_NewFrame, ImGui::NewFrame, internal_frame with the
\* text editor, ImGui::Render).
on_pre_engine_tick(t) ==
    \/ /\ plugin.pc[t] = "on_pre_engine_tick"
       /\ IF plugin.m_initialized
          THEN Callback([plugin EXCEPT !.pc[t] = "on_pre_engine_tick: lock"])
          ELSE Returned(t, plugin)
    \/ /\ plugin.pc[t] = "on_pre_engine_tick: lock"
       /\ Locked(t, "on_pre_engine_tick: frame")
    \/ /\ plugin.pc[t] = "on_pre_engine_tick: frame"
       /\ Returned(t, plugin)

NextCallbacks ==
    \E t \in Threads :
        \/ HostCalls(t)
        \/ on_present(t)
        \/ on_device_reset(t)
        \/ on_post_render_vr_framework(t)
        \/ on_pre_engine_tick(t)

\* The plugin and the editor as constructed, the host calling the callbacks
\* on its threads in any order.
SpecCallbacks == Init /\ [][NextCallbacks]_vars

\* Thread t executes the ImGui frame and render calls of a callback, those
\* of on_pre_engine_tick with the text editor.
InFrame(t) ==
    plugin.pc[t] \in {"on_present: frame", "on_post_render_vr_framework: frame",
                      "on_pre_engine_tick: frame"}

\* C40: under any interleaving of the callbacks, no thread executes an ImGui
\* frame or render call or uses the text editor while the backend is shut
\* down (m_initialized false), and a thread that does owns m_imgui_mutex.
FramesOnlyWhileInitializedUnderMutex ==
    \A t \in Threads : InFrame(t) => plugin.m_initialized /\ plugin.owner = t

\* What holds: a thread that executes the frame and render calls or uses
\* the text editor owns m_imgui_mutex.
FramesUnderMutex ==
    \A t \in Threads : InFrame(t) => plugin.owner = t

====
